---- MODULE Spec2Model ----
(***************************************************************************)
(* FasalSetu: a state-machine model of the crop / disease-log data access  *)
(* layer, the crop status classification, the location update guard, the   *)
(* advisory fallback, the smart alert generation and the screen            *)
(* navigation of the application.                                          *)
(***************************************************************************)
EXTENDS Integers, Sequences, FiniteSets, Bags, TLC

(***************************************************************************)
(* Bounds of the model.                                                    *)
(***************************************************************************)
MaxCrops == 2
MaxLogs == 2
MaxCalls == 2
MaxDays == 3

(***************************************************************************)
(* Value sets.                                                             *)
(***************************************************************************)
Users == {"u1", "u2"}
NoUser == "none"
CropNames == {"Wheat", "Rice"}
NoCrop == 0
Statuses == {"healthy", "attention", "critical"}
NoStatus == "none"
\* The clock, in days.  The values sit on both sides of the 7-day and the
\* 30-day limits.
Times == {0, 7, 37}

\* sevenDaysAgo.setDate(getDate() - 7)
MANUAL_STATUS_DAYS == 7
\* thirtyDaysAgo.setDate(getDate() - 30)
DISEASE_WINDOW_DAYS == 30

VARIABLES
    session,        \* the user of the auth session, or NoUser
    cropCycles,     \* table crop_cycles: a set of rows
    nextCropId,     \* the serial of crop_cycles.crop_id
    diseaseLogs,    \* table disease_logs: a bag of rows
    now,            \* the clock (days)
    lastOp,         \* the handler that completed last, with what it returned
    \* user-location
    locationUpdateInProgress,
    permissionDenied,
    lastPermissionCheck,
    clock,          \* Date.now() (ms)
    calls,          \* the updateUserLocation calls, each at its await
    savedLocation,  \* users.latitude / longitude of the signed-in user
    \* App
    currentScreen,
    sessionCheck,   \* checkSession: "pending" or "done"
    otp,            \* handleVerifyOtp: "idle" or "pending"
    submit,         \* CropDetails.handleSubmit: where it awaits
    \* what generateSmartAlerts reads, and the farm's other tables
    forecastday,    \* the days of the forecast the weather API serves
    farmSoilData,   \* table farm_soil_data: a set of rows
    harvestDates,   \* crop_cycles.expected_harvest_date, by crop_id
    cropSuggestions,    \* table crop_suggestions: a set of rows
    nextSuggestionId,   \* the serial of crop_suggestions.suggestion_id
    \* VoiceService: speech output
    currentAudio,       \* the speak call whose Audio it holds, or 0
    currentUtterance,   \* the speak call whose utterance it holds, or 0
    playing,            \* the speak calls whose Audio element is playing
    synthesis,          \* window.speechSynthesis: the utterances queued
    speaks,             \* the speak calls, each at its await
    \* VoiceService: speech input
    isRecognitionActive,
    recognition,        \* the recogniser: its session and whose handlers it has
    listens,            \* the promises startListening returned
    \* Chatbot
    isLoading,          \* the state isLoading and the value the last render saw
    sends,              \* the handleSendMessage invocations
    messages,           \* the messages appended, by sender
    \* CropCard
    cardStatus,         \* the status shown and the evaluation that set it
    evaluations         \* the loadStatus runs of the card

dbVars == <<session, cropCycles, nextCropId, diseaseLogs, now, lastOp>>

locVars == <<locationUpdateInProgress, permissionDenied, lastPermissionCheck,
             clock, calls, savedLocation>>

navVars == <<currentScreen, sessionCheck, otp, submit>>

farmVars == <<forecastday, farmSoilData, harvestDates, cropSuggestions,
              nextSuggestionId>>

voiceVars == <<currentAudio, currentUtterance, playing, synthesis, speaks>>

listenVars == <<isRecognitionActive, recognition, listens>>

chatVars == <<isLoading, sends, messages>>

cardVars == <<cardStatus, evaluations>>

uiVars == <<voiceVars, listenVars, chatVars, cardVars>>

vars == <<dbVars, locVars, navVars, farmVars, uiVars>>

\* lastOp after a handler whose return value no property reads.
NoOp == [op |-> "none"]

(***************************************************************************)
(* auth-helpers: getCurrentUser.  supabase.auth.getUser() asks the auth    *)
(* server; authOk = FALSE is the call that yields no user.                 *)
(***************************************************************************)
getCurrentUser(authOk) == IF authOk THEN session ELSE NoUser

(***************************************************************************)
(* Row-level security: USING (auth.uid() = user_id).                       *)
(***************************************************************************)
\* Mutant: a table without row-level security.
RlsVisible_Mut(row) == TRUE

RlsVisible(row) == session # NoUser /\ row.user_id = session

CropIds == 1..MaxCrops

HasCrop(cropId) == \E r \in cropCycles : r.crop_id = cropId
CropRow(cropId) == CHOOSE r \in cropCycles : r.crop_id = cropId

(***************************************************************************)
(* crop-db: addCropCycle.  sowing_date, expected_harvest_date and the      *)
(* other descriptive columns are not part of the state: no handler reads   *)
(* them except to order rows (see MostRecentActive).                       *)
(***************************************************************************)
NewCropRow(user, name) ==
    [crop_id |-> nextCropId, user_id |-> user, crop_name |-> name,
     is_active |-> TRUE,
     manual_status |-> NoStatus, manual_status_updated_at |-> 0]

addCropCycle(name, authOk, dbOk) ==
    LET user == getCurrentUser(authOk) IN
    IF user # NoUser /\ dbOk THEN NewCropRow(user, name).crop_id ELSE NoCrop

AddCropCycle(name, authOk, dbOk) ==
    LET user == getCurrentUser(authOk) IN
    /\ IF user # NoUser /\ dbOk
       THEN /\ nextCropId <= MaxCrops
            /\ cropCycles' = cropCycles \cup {NewCropRow(user, name)}
            /\ nextCropId' = nextCropId + 1
       ELSE UNCHANGED <<cropCycles, nextCropId>>
    /\ lastOp' = NoOp
    /\ UNCHANGED <<session, diseaseLogs, now>>
    /\ UNCHANGED <<locVars, navVars, farmVars, uiVars>>

(***************************************************************************)
(* crop-db: updateCropCycle(cropId, updates), updates a                    *)
(* Partial<CreateCropData>; .eq('crop_id').eq('user_id')                   *)
(***************************************************************************)
CropsAfterUpdate(cropId, user, name) ==
    {IF r.crop_id = cropId /\ r.user_id = user /\ RlsVisible(r)
        THEN [r EXCEPT !.crop_name = name]
        ELSE r : r \in cropCycles}

UpdateCropCycle(cropId, name, authOk, dbOk) ==
    LET user == getCurrentUser(authOk) IN
    /\ IF user # NoUser /\ dbOk
       THEN cropCycles' = CropsAfterUpdate(cropId, user, name)
       ELSE UNCHANGED cropCycles
    /\ lastOp' = NoOp
    /\ UNCHANGED <<session, nextCropId, diseaseLogs, now>>
    /\ UNCHANGED <<locVars, navVars, farmVars, uiVars>>

(***************************************************************************)
(* crop-db: markCropAsHarvested.                                           *)
(***************************************************************************)
CropsAfterHarvest(cropId, user) ==
    {IF r.crop_id = cropId /\ r.user_id = user /\ RlsVisible(r)
        THEN [r EXCEPT !.is_active = FALSE]
        ELSE r : r \in cropCycles}

MarkCropAsHarvested(cropId, authOk, dbOk) ==
    LET user == getCurrentUser(authOk) IN
    /\ IF user # NoUser /\ dbOk
       THEN cropCycles' = CropsAfterHarvest(cropId, user)
       ELSE UNCHANGED cropCycles
    /\ lastOp' = NoOp
    /\ UNCHANGED <<session, nextCropId, diseaseLogs, now>>
    /\ UNCHANGED <<locVars, navVars, farmVars, uiVars>>

(***************************************************************************)
(* crop-db: deleteCropCycle.  disease_logs.crop_cycle_id REFERENCES        *)
(* crop_cycles(crop_id) ON DELETE SET NULL.                                *)
(***************************************************************************)
CropsAfterDelete(cropId, user) ==
    {r \in cropCycles : ~(r.crop_id = cropId /\ r.user_id = user /\ RlsVisible(r))}

CopiesOf(row, logs) == IF row \in DOMAIN logs THEN logs[row] ELSE 0

LogsAfterCropDelete(gone) ==
    LET orphan(r) == IF r.crop_cycle_id = gone
                     THEN [r EXCEPT !.crop_cycle_id = NoCrop] ELSE r
        rows == {orphan(r) : r \in DOMAIN diseaseLogs}
    IN  [t \in rows |->
            CopiesOf(t, diseaseLogs)
            + (IF t.crop_cycle_id = NoCrop
               THEN CopiesOf([t EXCEPT !.crop_cycle_id = gone], diseaseLogs)
               ELSE 0)]

DeleteCropCycle(cropId, authOk, dbOk) ==
    LET user == getCurrentUser(authOk) IN
    /\ IF user # NoUser /\ dbOk
       THEN /\ cropCycles' = CropsAfterDelete(cropId, user)
            /\ diseaseLogs' = IF CropsAfterDelete(cropId, user) # cropCycles
                              THEN LogsAfterCropDelete(cropId)
                              ELSE diseaseLogs
       ELSE UNCHANGED <<cropCycles, diseaseLogs>>
    /\ lastOp' = NoOp
    /\ UNCHANGED <<session, nextCropId, now>>
    /\ UNCHANGED <<locVars, navVars, farmVars, uiVars>>

(***************************************************************************)
(* crop-db: updateCropStatus (the manual status override).                 *)
(***************************************************************************)
\* Mutant: recording a manual status also clears the active flag.
CropsAfterStatus_Mut(cropId, user, status) ==
    {IF r.crop_id = cropId /\ r.user_id = user /\ RlsVisible(r)
        THEN [r EXCEPT !.manual_status = status, !.manual_status_updated_at = now,
                       !.is_active = FALSE]
        ELSE r : r \in cropCycles}

CropsAfterStatus(cropId, user, status) ==
    {IF r.crop_id = cropId /\ r.user_id = user /\ RlsVisible(r)
        THEN [r EXCEPT !.manual_status = status, !.manual_status_updated_at = now]
        ELSE r : r \in cropCycles}

UpdateCropStatus(cropId, status, authOk, dbOk) ==
    LET user == getCurrentUser(authOk) IN
    /\ IF user # NoUser /\ dbOk
       THEN cropCycles' = CropsAfterStatus(cropId, user, status)
       ELSE UNCHANGED cropCycles
    /\ lastOp' = NoOp
    /\ UNCHANGED <<session, nextCropId, diseaseLogs, now>>
    /\ UNCHANGED <<locVars, navVars, farmVars, uiVars>>

(***************************************************************************)
(* Supabase auth: a sign-in completes, auth-helpers signOut.               *)
(***************************************************************************)
SignIn(u) ==
    /\ session' = u
    /\ lastOp' = NoOp
    /\ UNCHANGED <<cropCycles, nextCropId, diseaseLogs, now>>
    /\ UNCHANGED <<locVars, navVars, farmVars, uiVars>>

SignOut ==
    /\ session' = NoUser
    /\ lastOp' = NoOp
    /\ UNCHANGED <<cropCycles, nextCropId, diseaseLogs, now>>
    /\ UNCHANGED <<locVars, navVars, farmVars, uiVars>>

(***************************************************************************)
(* user-location: the module-level state when the module is loaded.        *)
(***************************************************************************)
Calls == 1..MaxCalls

\* const PERMISSION_CHECK_COOLDOWN = 60000
PERMISSION_CHECK_COOLDOWN == 60000

\* Date.now() at load and later; the steps sit on both sides of the cooldown.
ClockTimes == {100000, 130000, 160000, 230000}

NotCalledYet == [pc |-> "idle", busyAtStart |-> FALSE, geoIssued |-> FALSE,
                 result |-> "none", denied |-> FALSE, endedAt |-> 0]

LocationModuleLoaded ==
    /\ locationUpdateInProgress = FALSE
    /\ permissionDenied = FALSE
    /\ lastPermissionCheck = 0
    /\ clock = 100000
    /\ calls = [p \in Calls |-> NotCalledYet]
    /\ savedLocation = "none"

(***************************************************************************)
(* App: the state of the component when it mounts.                         *)
(***************************************************************************)
AppScreens == {"login", "welcome", "phase-selection", "crop-details", "home", "loading"}

AppMounted ==
    /\ currentScreen = "loading"
    /\ sessionCheck = "pending"
    /\ otp = "idle"
    /\ submit = [pc |-> "idle", name |-> "", user |-> NoUser]

(***************************************************************************)
(* The voice service constructed, and the Chatbot and a CropCard mounted.  *)
(* A call that never was made is "idle".                                   *)
(***************************************************************************)
NoCall == 0

NoEvaluation == [pc |-> "idle", result |-> NoStatus]
NoSend == [pc |-> "idle", input |-> FALSE]

ComponentsMounted ==
    /\ currentAudio = NoCall
    /\ currentUtterance = NoCall
    /\ playing = {}
    /\ synthesis = <<>>
    /\ speaks = [p \in Calls |-> "idle"]
    /\ isRecognitionActive = FALSE
    /\ recognition = [session |-> "none", handlers |-> NoCall]
    /\ listens = [p \in Calls |-> "idle"]
    /\ isLoading = [state |-> FALSE, rendered |-> FALSE]
    /\ sends = [p \in Calls |-> NoSend]
    /\ messages = [user |-> 0, bot |-> 0]
    /\ cardStatus = [shown |-> "healthy", from |-> NoCall]
    /\ evaluations = [p \in Calls |-> NoEvaluation]

(***************************************************************************)
(* No forecast fetched, no soil analysis stored, no harvest date entered.  *)
(***************************************************************************)
NoDate == 0

NoFarmData ==
    /\ forecastday = <<>>
    /\ farmSoilData = {}
    /\ harvestDates = [c \in CropIds |-> NoDate]
    /\ cropSuggestions = {}
    /\ nextSuggestionId = 1

(***************************************************************************)
(* The database after the schema scripts, nobody signed in.                *)
(***************************************************************************)
InitDb ==
    /\ session = NoUser
    /\ cropCycles = {}
    /\ nextCropId = 1
    /\ diseaseLogs = EmptyBag
    /\ now = 0
    /\ lastOp = NoOp
    /\ LocationModuleLoaded
    /\ AppMounted
    /\ ComponentsMounted
    /\ NoFarmData

(***************************************************************************)
(* The crop-cycle operations, several users.                               *)
(***************************************************************************)
NextCrops ==
    \/ \E u \in Users : SignIn(u)
    \/ SignOut
    \/ \E n \in CropNames, a, d \in BOOLEAN : AddCropCycle(n, a, d)
    \/ \E c \in CropIds, n \in CropNames, a, d \in BOOLEAN : UpdateCropCycle(c, n, a, d)
    \/ \E c \in CropIds, a, d \in BOOLEAN : MarkCropAsHarvested(c, a, d)
    \/ \E c \in CropIds, a, d \in BOOLEAN : DeleteCropCycle(c, a, d)
    \/ \E c \in CropIds, s \in Statuses, a, d \in BOOLEAN : UpdateCropStatus(c, s, a, d)

SpecCrops == InitDb /\ [][NextCrops]_vars

\* deleteCropCycle / markCropAsHarvested got past their error checks and
\* matched the row cropId.
DeleteSucceeds(cropId) ==
    \E a, d \in BOOLEAN :
        /\ DeleteCropCycle(cropId, a, d)
        /\ getCurrentUser(a) # NoUser /\ d
        /\ CropsAfterDelete(cropId, getCurrentUser(a)) # cropCycles

HarvestSucceeds(cropId) ==
    \E a, d \in BOOLEAN :
        /\ MarkCropAsHarvested(cropId, a, d)
        /\ getCurrentUser(a) # NoUser /\ d
        /\ CropsAfterHarvest(cropId, getCurrentUser(a)) # cropCycles

StaysActive(cropId) ==
    \E r \in cropCycles' : r.crop_id = cropId /\ r.is_active

\* C6: a crop-cycle row that is present with is_active = true is still
\* present with is_active = true after every step, except a step in which
\* deleteCropCycle or markCropAsHarvested succeeds on that very row.
C6_ActiveUntilDeletedOrHarvested ==
    [][\A r \in cropCycles :
          r.is_active =>
              \/ StaysActive(r.crop_id)
              \/ DeleteSucceeds(r.crop_id)
              \/ HarvestSucceeds(r.crop_id)]_vars

\* Both rows went through updateCropCycle / updateCropStatus and a sign-out,
\* and one row of another user is still active beside a harvested one.
C6_Witness ==
    /\ \E r \in cropCycles :
          /\ r.is_active /\ r.manual_status = "critical" /\ r.crop_name = "Rice"
          /\ r.user_id = "u1"
    /\ \E r \in cropCycles : ~r.is_active /\ r.user_id = "u2"
    /\ session = NoUser

(***************************************************************************)
(* cropAdvisoryAI: generateAdvice.                                         *)
(*                                                                         *)
(* A text is kept by what extractDiseaseInfo and parseResponse read of it: *)
(* the ** ** span of its first line (absent, empty, or a name) and the     *)
(* severity keyword classes that occur in it.                              *)
(***************************************************************************)
Langs == {"hi", "mr", "te", "ta", "en", "mixed"}
\* preferredLanguage undefined / empty, and a value outside the message table.
NoLang == ""
LangInputs == Langs \cup {NoLang, "kn"}
\* users.preferred_language as fetchFarmContext reads it.
DbLangInputs == {NoLang, "hi", "mixed", "kn"}

BoldSpans == {"none", "empty", "Leaf Blight"}
KeywordSets == {{}, {"mild"}, {"moderate", "mild"}, {"severe", "mild"}}

\* The six canned messages carry no ** ** span and no severity keyword.
fallbackMessages == [l \in Langs |-> [kind |-> "fallback", lang |-> l]]

\* 'मैं आपकी मदद करने के लिए यहाँ हूँ।'
DefaultMessage == [kind |-> "default"]

ModelMessage(bold, words) == [kind |-> "text", bold |-> bold, words |-> words]

\* What model.generateContent settles with.
AiSettles ==
    {[form |-> f] : f \in {"throw", "noResponse", "emptyText"}}
    \cup {[form |-> "plain", bold |-> b, words |-> w] : b \in BoldSpans, w \in KeywordSets}
    \cup {[form |-> "json", hasMessage |-> TRUE, bold |-> "Leaf Blight", words |-> {"severe", "mild"}],
          [form |-> "json", hasMessage |-> FALSE, bold |-> "none", words |-> {}]}

\* setTimeout(() => reject(new Error('Response timeout')), 25000)
AI_TIMEOUT_MS == 25000
AiLatencies == {1000, 30000}

\* Promise.race([generationPromise, timeoutPromise])
RaceWithTimeout(latency, settle) ==
    IF latency < AI_TIMEOUT_MS THEN settle ELSE [form |-> "timeout"]

AiFailures == {"throw", "timeout", "noResponse", "emptyText"}
NotCalled == [form |-> "notCalled"]

\* preferredLanguage: context || dbContext || 'mixed'
EnrichedLanguage(uiLang, dbLang) ==
    IF uiLang # NoLang THEN uiLang
    ELSE IF dbLang # NoLang THEN dbLang
    ELSE "mixed"

\* Mutant: the canned reply is always the mixed-language one.
getFallbackResponse_Mut(preferredLanguage) ==
    [message |-> fallbackMessages["mixed"],
     detectedLanguage |-> "mixed",
     category |-> "general"]

getFallbackResponse(preferredLanguage) ==
    LET language == IF preferredLanguage # NoLang THEN preferredLanguage ELSE "mixed"
    IN  [message |-> IF language \in DOMAIN fallbackMessages
                     THEN fallbackMessages[language]
                     ELSE fallbackMessages["mixed"],
         detectedLanguage |-> language,
         category |-> "general"]

parseResponse(generatedText, preferredLanguage) ==
    IF generatedText.form = "json"
    THEN [message |-> IF generatedText.hasMessage
                      THEN ModelMessage(generatedText.bold, generatedText.words)
                      ELSE DefaultMessage,
          detectedLanguage |-> "Hindi",
          category |-> "general"]
    ELSE [message |-> ModelMessage(generatedText.bold, generatedText.words),
          detectedLanguage |-> IF preferredLanguage # NoLang
                               THEN preferredLanguage ELSE "mixed",
          category |-> "disease_pest"]

\* modelReady: this.model && this.apiKey.
generateAdvice(uiLang, dbLang, modelReady, latency, settle) ==
    LET language == EnrichedLanguage(uiLang, dbLang)
        result == RaceWithTimeout(latency, settle)
    IN  IF ~modelReady THEN getFallbackResponse(language)
        ELSE IF result.form \in AiFailures THEN getFallbackResponse(language)
        ELSE parseResponse(result, language)

\* How supabase.auth.getUser() ends for the getCurrentUser call of the
\* image branch, which runs before the try: a user, no user, or a rejection.
AuthOutcomes == {"user", "none", "throw"}

\* No response: the promise of generateAdvice was rejected.
NoResponse == [message |-> [kind |-> "none"], detectedLanguage |-> "none",
               category |-> "none"]

\* The exception leaves generateAdvice: nothing catches it before the try.
Rejects(image, auth) == image /\ auth = "throw"

\* uploadImageToSupabase returns the URL, or null on any failure.
ImageUrl(image, auth, uploadOk) == image /\ auth = "user" /\ uploadOk

GenerateAdvice(uiLang, dbLang, modelReady, latency, settle, image, auth, uploadOk) ==
    LET called == modelReady /\ ~Rejects(image, auth) IN
    /\ lastOp' = [op |-> "generateAdvice",
                  uiLang |-> uiLang, dbLang |-> dbLang,
                  image |-> image, auth |-> auth,
                  imageUrl |-> ImageUrl(image, auth, uploadOk),
                  called |-> called,
                  outcome |-> IF called THEN RaceWithTimeout(latency, settle)
                              ELSE NotCalled,
                  returned |-> ~Rejects(image, auth),
                  result |-> IF Rejects(image, auth) THEN NoResponse
                             ELSE generateAdvice(uiLang, dbLang, modelReady,
                                                 latency, settle)]
    /\ UNCHANGED <<session, cropCycles, nextCropId, diseaseLogs, now>>
    /\ UNCHANGED <<locVars, navVars, farmVars, uiVars>>

\* The runs of the model call: none when the service has no model.
LatenciesOf(modelReady) == IF modelReady THEN AiLatencies ELSE {0}
SettlesOf(modelReady) == IF modelReady THEN AiSettles ELSE {NotCalled}

\* The upload is attempted for a user only.
UploadsFor(auth) == IF auth = "user" THEN BOOLEAN ELSE {FALSE}

NextAdvice ==
    \/ \E ui \in LangInputs, db \in DbLangInputs, ready \in BOOLEAN :
          \E latency \in LatenciesOf(ready), settle \in SettlesOf(ready) :
             GenerateAdvice(ui, db, ready, latency, settle, FALSE, "none", FALSE)
    \/ \E ready \in BOOLEAN, auth \in AuthOutcomes :
          \E latency \in LatenciesOf(ready), settle \in SettlesOf(ready),
             uploadOk \in UploadsFor(auth) :
                GenerateAdvice("hi", NoLang, ready, latency, settle, TRUE, auth, uploadOk)

SpecAdvice == InitDb /\ [][NextAdvice]_vars

\* The canned message of a language: one of hi, mr, te, ta, en has its own,
\* every other value gets the mixed-language one.
CannedMessageIn(language) ==
    IF language \in {"hi", "mr", "te", "ta", "en"}
    THEN [kind |-> "fallback", lang |-> language]
    ELSE [kind |-> "fallback", lang |-> "mixed"]

\* C3: whenever the generative-AI call made by generateAdvice fails (it
\* throws, it is beaten by the 25 s timeout, it gives no response or an
\* empty text), generateAdvice returns, and what it returns is the canned
\* fallback message of the preferred language of the context it works with
\* (the caller's choice, else the one stored with the profile); a language
\* outside hi, mr, te, ta, en gets the mixed-language message.
C3_FallbackOnAiFailure ==
    (lastOp.op = "generateAdvice" /\ lastOp.called /\ lastOp.outcome.form \in AiFailures)
        => /\ lastOp.returned
           /\ lastOp.result.message =
                  CannedMessageIn(EnrichedLanguage(lastOp.uiLang, lastOp.dbLang))

\* The call timed out for a Tamil-speaking farmer: the Tamil message.
C3_Witness ==
    /\ lastOp.op = "generateAdvice" /\ lastOp.called
    /\ lastOp.outcome.form = "timeout"
    /\ lastOp.uiLang = "ta"
    /\ lastOp.result.message = [kind |-> "fallback", lang |-> "ta"]

(***************************************************************************)
(* Chatbot: extractDiseaseInfo.                                            *)
(***************************************************************************)
FirstBoldSpan(message) == IF message.kind = "text" THEN message.bold ELSE "none"
KeywordsIn(message) == IF message.kind = "text" THEN message.words ELSE {}

extractDiseaseInfo(message) ==
    LET bold == FirstBoldSpan(message)
        words == KeywordsIn(message)
    IN  [diseaseName |-> IF bold = "none" THEN "Unknown"
                         ELSE IF bold = "empty" THEN ""
                         ELSE bold,
         severity |-> IF "severe" \in words THEN "severe"
                      ELSE IF "moderate" \in words THEN "moderate"
                      ELSE IF "mild" \in words THEN "mild"
                      ELSE "moderate"]

(***************************************************************************)
(* Table disease_logs.  A row keeps the columns that are read back.        *)
(***************************************************************************)
LogCount(logs) == BagCardinality(logs)

NewLogRow(user, cropCycleId, severity) ==
    [user_id |-> user, crop_cycle_id |-> cropCycleId,
     detection_date |-> now, severity |-> severity]

\* severity TEXT CHECK (severity IN ('mild', 'moderate', 'severe', 'unknown'))
SeverityCheck == {"mild", "moderate", "severe", "unknown"}

\* An insert whose row fails the CHECK is turned down by the table.
RejectedByCheck(row) == row.severity \notin SeverityCheck

(***************************************************************************)
(* Chatbot: saveDiseaseToDatabase.  The crop is looked up by the selected  *)
(* name, then among all active crops; .order('sowing_date').limit(1) picks *)
(* one of the candidates.  lookupOk = FALSE: the lookups return an error.  *)
(***************************************************************************)
ActiveCropsOf(user) ==
    {r \in cropCycles : RlsVisible(r) /\ r.user_id = user /\ r.is_active}

MostRecentActive(user, selectedCropName, lookupOk) ==
    LET byName == {r.crop_id : r \in {x \in ActiveCropsOf(user) :
                                         x.crop_name = selectedCropName}}
        any == {r.crop_id : r \in ActiveCropsOf(user)}
    IN  IF ~lookupOk THEN {NoCrop}
        ELSE IF selectedCropName # "" /\ byName # {} THEN byName
        ELSE IF any # {} THEN any
        ELSE {NoCrop}

\* The model call as the chatbot makes it.
ChatRuns ==
    {<<FALSE, 0, NotCalled>>,
     <<TRUE, 30000, [form |-> "plain", bold |-> "Leaf Blight", words |-> {"severe", "mild"}]>>,
     <<TRUE, 1000, [form |-> "plain", bold |-> "Leaf Blight", words |-> {"severe", "mild"}]>>,
     <<TRUE, 1000, [form |-> "plain", bold |-> "Leaf Blight", words |-> {"mild"}]>>,
     <<TRUE, 1000, [form |-> "plain", bold |-> "none", words |-> {}]>>,
     <<TRUE, 1000, [form |-> "plain", bold |-> "empty", words |-> {"moderate", "mild"}]>>}

Assessed(run) == run[1] /\ RaceWithTimeout(run[2], run[3]).form \notin AiFailures

(***************************************************************************)
(* Chatbot: handleSendMessage with an image selected.                      *)
(***************************************************************************)
SendImage(authOk, uploadOk, run, uiLang, selectedCrop, lookupOk, insertOk, cropCycleId) ==
    LET user == getCurrentUser(authOk)
        imageUrl == user # NoUser /\ uploadOk
        aiResponse == generateAdvice(uiLang, NoLang, run[1], run[2], run[3])
        diseaseInfo == extractDiseaseInfo(aiResponse.message)
        save == user # NoUser /\ imageUrl /\ diseaseInfo.diseaseName # ""
        row == NewLogRow(user, cropCycleId, diseaseInfo.severity)
    IN
    /\ IF save /\ insertOk /\ ~RejectedByCheck(row)
       THEN /\ LogCount(diseaseLogs) < MaxLogs
            /\ cropCycleId \in MostRecentActive(user, selectedCrop, lookupOk)
            /\ diseaseLogs' = diseaseLogs (+) SetToBag({row})
            /\ lastOp' = [op |-> "sendImage", uploaded |-> imageUrl,
                          assessed |-> Assessed(run), saved |-> TRUE,
                          crop |-> cropCycleId, rejected |-> FALSE]
       ELSE /\ UNCHANGED diseaseLogs
            /\ lastOp' = [op |-> "sendImage", uploaded |-> imageUrl,
                          assessed |-> Assessed(run), saved |-> FALSE,
                          crop |-> NoCrop,
                          rejected |-> save /\ RejectedByCheck(row)]
    /\ UNCHANGED <<session, cropCycles, nextCropId, now>>
    /\ UNCHANGED <<locVars, navVars, farmVars, uiVars>>

(***************************************************************************)
(* Chatbot: handleSendMessage with a text that reports the crop healthy.   *)
(***************************************************************************)
SendHealthyReport(authOk, lookupOk, updateAuthOk, dbOk, cropCycleId) ==
    LET user == getCurrentUser(authOk)
        updater == getCurrentUser(updateAuthOk)
    IN
    /\ cropCycleId \in (IF user # NoUser
                        THEN MostRecentActive(user, "", lookupOk) ELSE {NoCrop})
    /\ IF cropCycleId # NoCrop /\ updater # NoUser /\ dbOk
       THEN cropCycles' = CropsAfterStatus(cropCycleId, updater, "healthy")
       ELSE UNCHANGED cropCycles
    /\ lastOp' = NoOp
    /\ UNCHANGED <<session, nextCropId, diseaseLogs, now>>
    /\ UNCHANGED <<locVars, navVars, farmVars, uiVars>>

(***************************************************************************)
(* diseaseDetectionService: detectDiseaseFromLabels.  The labels are kept  *)
(* by what the function reads of them: "none" (no disease keyword and no   *)
(* health issue), the first DISEASE_REMEDIES key the detected term         *)
(* includes, or a detected term that includes no key.                      *)
(***************************************************************************)
\* Mutant: the table rates rust 'high'.
DISEASE_REMEDIES_Mut ==
    [k \in {"leaf blight", "powdery mildew", "rust", "anthracnose",
            "downy mildew", "fusarium wilt", "bacterial spot",
            "bacterial blight", "mosaic virus", "leaf curl", "aphid",
            "whitefly", "caterpillar", "thrips", "mite",
            "nitrogen deficiency", "iron deficiency", "magnesium deficiency"} |->
        IF k = "rust" THEN "high"
        ELSE IF k \in {"fusarium wilt", "bacterial blight", "mosaic virus", "leaf curl"}
             THEN "severe"
        ELSE IF k \in {"leaf blight", "anthracnose", "downy mildew",
                       "bacterial spot", "whitefly", "caterpillar"}
             THEN "moderate"
        ELSE "mild"]

\* The severity column of DISEASE_REMEDIES.
DISEASE_REMEDIES ==
    [k \in {"leaf blight", "powdery mildew", "rust", "anthracnose",
            "downy mildew", "fusarium wilt", "bacterial spot",
            "bacterial blight", "mosaic virus", "leaf curl", "aphid",
            "whitefly", "caterpillar", "thrips", "mite",
            "nitrogen deficiency", "iron deficiency", "magnesium deficiency"} |->
        IF k \in {"fusarium wilt", "bacterial blight", "mosaic virus", "leaf curl"}
        THEN "severe"
        ELSE IF k \in {"leaf blight", "rust", "anthracnose", "downy mildew",
                       "bacterial spot", "whitefly", "caterpillar"}
             THEN "moderate"
        ELSE "mild"]

UnlistedTerms == {"canker", "possible nutrient deficiency or stress"}

DetectedTerms == {"none"} \cup DOMAIN DISEASE_REMEDIES \cup UnlistedTerms

detectDiseaseFromLabels(detectedDisease) ==
    LET matched == detectedDisease \in DOMAIN DISEASE_REMEDIES
        severity == IF detectedDisease # "none" /\ matched
                    THEN DISEASE_REMEDIES[detectedDisease]
                    ELSE "unknown"
    IN  [disease_name |-> IF detectedDisease = "none" THEN "Unknown"
                          ELSE detectedDisease,
         severity |-> IF severity = "unknown" /\ detectedDisease # "none"
                      THEN "moderate"
                      ELSE severity]

(***************************************************************************)
(* diseaseDetectionService: detectDiseaseFromImage.  vision: "fail" or the *)
(* term detectDiseaseFromLabels detects.                                   *)
(***************************************************************************)
VisionOutcomes == {"fail", "none", "fusarium wilt"}

DetectDiseaseFromImage(authOk, uploadOk, vision, saveAuthOk, insertOk, cropCycleId) ==
    LET imageUrl == getCurrentUser(authOk) # NoUser /\ uploadOk
        user == getCurrentUser(saveAuthOk)
        analysed == imageUrl /\ vision # "fail"
        row == NewLogRow(user, cropCycleId, detectDiseaseFromLabels(vision).severity)
    IN
    /\ IF analysed /\ user # NoUser /\ insertOk /\ ~RejectedByCheck(row)
       THEN /\ LogCount(diseaseLogs) < MaxLogs
            /\ diseaseLogs' = diseaseLogs (+) SetToBag({row})
            /\ lastOp' = [op |-> "detectDiseaseFromImage", uploaded |-> TRUE,
                          assessed |-> TRUE, saved |-> TRUE, crop |-> cropCycleId,
                          rejected |-> FALSE]
       ELSE /\ UNCHANGED diseaseLogs
            /\ lastOp' = [op |-> "detectDiseaseFromImage",
                          uploaded |-> imageUrl,
                          assessed |-> analysed, saved |-> FALSE, crop |-> cropCycleId,
                          rejected |-> analysed /\ user # NoUser
                                          /\ RejectedByCheck(row)]
    /\ UNCHANGED <<session, cropCycles, nextCropId, now>>
    /\ UNCHANGED <<locVars, navVars, farmVars, uiVars>>

(***************************************************************************)
(* crop-db: getCropStatus.  manualQ, logsQ: how the two queries end, "ok", *)
(* "error" (an error object is returned) or "throw".                       *)
(***************************************************************************)
QueryOutcomes == {"ok", "error", "throw"}

\* .eq('crop_id', crop.crop_id).single(): the row, when the query gives one.
ManualRowFound(cropId, manualQ) ==
    manualQ = "ok" /\ \E r \in cropCycles : r.crop_id = cropId /\ RlsVisible(r)

\* Mutant: a manual status exactly seven days old still counts.
ManualInEffect_Mut(row) ==
    /\ row.manual_status # NoStatus
    /\ row.manual_status_updated_at >= now - MANUAL_STATUS_DAYS

\* manual_status && manual_status_updated_at, and statusDate > sevenDaysAgo
ManualInEffect(row) ==
    /\ row.manual_status # NoStatus
    /\ row.manual_status_updated_at > now - MANUAL_STATUS_DAYS

ManualUsed(cropId, manualQ) ==
    ManualRowFound(cropId, manualQ) /\ ManualInEffect(CropRow(cropId))

\* .eq('crop_cycle_id', crop.crop_id).gte('detection_date', thirtyDaysAgo)
RecentLogs(cropId) ==
    LET rows == {r \in DOMAIN diseaseLogs :
                    /\ RlsVisible(r)
                    /\ r.crop_cycle_id = cropId
                    /\ r.detection_date >= now - DISEASE_WINDOW_DAYS}
    IN  [r \in rows |-> diseaseLogs[r]]

CountSeverity(logs, severity) ==
    LogCount([r \in {x \in DOMAIN logs : x.severity = severity} |-> logs[r]])

\* Mutant: one mild or moderate log leaves the crop healthy.
ClassifyLogs_NoAttention(logs) ==
    IF LogCount(logs) = 0 THEN "healthy"
    ELSE IF LogCount(logs) >= 2 THEN "critical"
    ELSE IF CountSeverity(logs, "severe") > 0 THEN "critical"
    ELSE "healthy"

\* Mutant: a single severe log is not enough for critical.
ClassifyLogs_SevereIgnored(logs) ==
    IF LogCount(logs) = 0 THEN "healthy"
    ELSE IF LogCount(logs) >= 2 THEN "critical"
    ELSE IF CountSeverity(logs, "moderate") > 0 \/ CountSeverity(logs, "mild") > 0
         \/ CountSeverity(logs, "severe") > 0
         THEN "attention"
    ELSE "healthy"

ClassifyLogs(logs) ==
    IF LogCount(logs) = 0 THEN "healthy"
    ELSE IF LogCount(logs) >= 2 THEN "critical"
    ELSE IF CountSeverity(logs, "severe") > 0 THEN "critical"
    ELSE IF CountSeverity(logs, "moderate") > 0 \/ CountSeverity(logs, "mild") > 0
         THEN "attention"
    ELSE "healthy"

\* Mutant: a failed disease-log query is taken for the worst case.
StatusOnFailure_Mut == "critical"

\* return 'healthy' in the error branch and in the catch block.
StatusOnFailure == "healthy"

\* The disease-log query is sent unless the manual query threw or the manual
\* status was returned.
LogQueryIssued(cropId, manualQ) ==
    manualQ # "throw" /\ ~ManualUsed(cropId, manualQ)

getCropStatus(cropId, manualQ, logsQ) ==
    IF manualQ = "throw" THEN StatusOnFailure
    ELSE IF ManualUsed(cropId, manualQ) THEN CropRow(cropId).manual_status
    ELSE IF logsQ \in {"error", "throw"} THEN StatusOnFailure
    ELSE ClassifyLogs(RecentLogs(cropId))

GetCropStatus(cropId, manualQ, logsQ) ==
    /\ lastOp' = [op |-> "getCropStatus", crop |-> cropId,
                  manualQ |-> manualQ, logsQ |-> logsQ,
                  result |-> getCropStatus(cropId, manualQ, logsQ)]
    /\ UNCHANGED <<session, cropCycles, nextCropId, diseaseLogs, now>>
    /\ UNCHANGED <<locVars, navVars, farmVars, uiVars>>

LogOutcomesOf(cropId, manualQ) ==
    IF LogQueryIssued(cropId, manualQ) THEN QueryOutcomes ELSE {"notIssued"}

(***************************************************************************)
(* Days pass.                                                              *)
(***************************************************************************)
Tick ==
    /\ \E t \in Times : t > now /\ now' = t
    /\ lastOp' = NoOp
    /\ UNCHANGED <<session, cropCycles, nextCropId, diseaseLogs>>
    /\ UNCHANGED <<locVars, navVars, farmVars, uiVars>>

(***************************************************************************)
(* One farmer, signed in, with one crop cycle added: the chatbot, the      *)
(* disease detection and the crop cards.                                   *)
(***************************************************************************)
InitDisease ==
    /\ session = "u1"
    /\ cropCycles = {[crop_id |-> 1, user_id |-> "u1", crop_name |-> "Wheat",
                      is_active |-> TRUE,
                      manual_status |-> NoStatus, manual_status_updated_at |-> 0]}
    /\ nextCropId = 2
    /\ diseaseLogs = EmptyBag
    /\ now = 0
    /\ lastOp = NoOp
    /\ LocationModuleLoaded
    /\ AppMounted
    /\ ComponentsMounted
    /\ NoFarmData

\* Inputs are drawn where the handler consumes them.
UploadsOf(authOk) == IF authOk THEN BOOLEAN ELSE {FALSE}

SelectableCrops == {r.crop_name : r \in cropCycles} \cup {""}

SavesOf(authOk, uploadOk, run) ==
    IF /\ authOk /\ uploadOk
       /\ extractDiseaseInfo(generateAdvice("hi", NoLang, run[1], run[2], run[3]).message).diseaseName # ""
    THEN SelectableCrops \X BOOLEAN \X BOOLEAN
    ELSE {<<"", TRUE, TRUE>>}

CropPicksOf(authOk, selectedCrop, lookupOk) ==
    IF authOk THEN MostRecentActive(session, selectedCrop, lookupOk) ELSE {NoCrop}

UpdatesOf(cropCycleId) == IF cropCycleId # NoCrop THEN BOOLEAN ELSE {TRUE}

VisionOf(authOk, uploadOk) == IF authOk /\ uploadOk THEN VisionOutcomes ELSE {"fail"}

InsertsOf(vision) == IF vision # "fail" THEN BOOLEAN ELSE {TRUE}

NextDisease ==
    \/ \E authOk \in BOOLEAN, run \in ChatRuns :
         \E uploadOk \in UploadsOf(authOk) :
            \E sv \in SavesOf(authOk, uploadOk, run) :
               \E c \in CropPicksOf(authOk, sv[1], sv[2]) :
                  SendImage(authOk, uploadOk, run, "hi", sv[1], sv[2], sv[3], c)
    \/ \E a \in BOOLEAN :
         \E l \in UploadsOf(a) :
            \E c \in CropPicksOf(a, "", l) :
               \E u, d \in UpdatesOf(c) :
                  SendHealthyReport(a, l, u, d, c)
    \/ \E a \in BOOLEAN :
         \E u \in UploadsOf(a) :
            \E v \in VisionOf(a, u) :
               \E sa, i \in InsertsOf(v) :
                  DetectDiseaseFromImage(a, u, v, sa, i, NoCrop)
    \/ \E r \in cropCycles, mq \in QueryOutcomes :
         \E lq \in LogOutcomesOf(r.crop_id, mq) :
            GetCropStatus(r.crop_id, mq, lq)
    \/ Tick

SpecDisease == InitDisease /\ [][NextDisease]_vars

(***************************************************************************)
(* Properties of the status evaluation and of the disease log.             *)
(***************************************************************************)
\* The rows of disease_logs of a crop cycle dated within the last 30 days.
LogsOfLast30Days(cropId) ==
    {r \in DOMAIN diseaseLogs : r.crop_cycle_id = cropId /\ r.detection_date >= now - 30}

NumberOf(rows) ==
    LogCount([r \in rows |-> diseaseLogs[r]])

\* A manual status of the crop set within the last 7 days.
ManualOverrideInEffect(cropId) ==
    \E r \in cropCycles :
        /\ r.crop_id = cropId
        /\ r.manual_status # NoStatus
        /\ r.manual_status_updated_at > now - 7

Evaluated == lastOp.op = "getCropStatus"

\* C1: when no manual status override is in effect and the disease-log
\* query succeeds, getCropStatus returns 'critical' for a crop whose
\* disease logs of the last 30 days number 2 or more or include a log of
\* severity 'severe'.
C1_CriticalOnTwoOrSevere ==
    (/\ Evaluated
     /\ ~ManualOverrideInEffect(lastOp.crop)
     /\ lastOp.manualQ # "throw" /\ lastOp.logsQ = "ok"
     /\ \/ NumberOf(LogsOfLast30Days(lastOp.crop)) >= 2
        \/ \E r \in LogsOfLast30Days(lastOp.crop) : r.severity = "severe")
        => lastOp.result = "critical"

\* One severe log within the window, an expired manual 'healthy' beside it.
C1_Witness ==
    /\ Evaluated /\ lastOp.logsQ = "ok" /\ lastOp.manualQ = "ok"
    /\ ~ManualOverrideInEffect(lastOp.crop)
    /\ CropRow(lastOp.crop).manual_status = "healthy"
    /\ NumberOf(LogsOfLast30Days(lastOp.crop)) = 1
    /\ \E r \in LogsOfLast30Days(lastOp.crop) : r.severity = "severe"
    /\ lastOp.result = "critical"

\* C4: if the disease-log query issued by getCropStatus returns an error,
\* or an exception is raised during the evaluation, getCropStatus returns
\* 'healthy'.
C4_HealthyOnFailure ==
    (Evaluated /\ (lastOp.manualQ = "throw" \/ lastOp.logsQ \in {"error", "throw"}))
        => lastOp.result = "healthy"

\* The log query failed for a crop with two recent logs.
C4_Witness ==
    /\ Evaluated /\ lastOp.logsQ = "error"
    /\ NumberOf(LogsOfLast30Days(lastOp.crop)) = 2
    /\ lastOp.result = "healthy"

\* C7: a disease log row is inserted only when the image upload succeeded
\* and the AI analysis of the image produced an assessment, never when a
\* fallback reply stood in for a failed analysis.
C7_LogOnlyForAssessedUpload ==
    [][LogCount(diseaseLogs') > LogCount(diseaseLogs)
          => lastOp'.uploaded /\ lastOp'.assessed]_vars

InFlight == {"awaitUser", "awaitGeo", "awaitSaveFallback", "awaitSave"}

AnotherInFlight(p) == \E q \in Calls \ {p} : calls[q].pc \in InFlight

\* Mutant: the in-progress flag is not consulted.
EntryCheck_Mut(inProgress, denied, sinceCheck) ==
    IF denied /\ sinceCheck < PERMISSION_CHECK_COOLDOWN THEN "cooldown"
    ELSE "run"

\* The two early returns of updateUserLocation.
EntryCheck(inProgress, denied, sinceCheck) ==
    IF inProgress THEN "busy"
    ELSE IF denied /\ sinceCheck < PERMISSION_CHECK_COOLDOWN THEN "cooldown"
    ELSE "run"

\* Mutant: no finally block, the flag cleared before the return of a
\* location only.
FlagAtReturn_Mut(result) == result = "null"

\* finally { locationUpdateInProgress = false }
FlagAtReturn(result) == FALSE

UpdateUserLocation(p) ==
    /\ calls[p].pc \in {"idle", "done"}
    /\ IF EntryCheck(locationUpdateInProgress, permissionDenied,
                     clock - lastPermissionCheck) = "run"
       THEN /\ locationUpdateInProgress' = TRUE
            /\ lastPermissionCheck' = clock
            /\ calls' = [calls EXCEPT ![p] =
                   [pc |-> "awaitUser", busyAtStart |-> AnotherInFlight(p),
                    geoIssued |-> FALSE, result |-> "none",
                    denied |-> FALSE, endedAt |-> 0]]
       ELSE /\ calls' = [calls EXCEPT ![p] =
                   [pc |-> "done", busyAtStart |-> AnotherInFlight(p),
                    geoIssued |-> FALSE, result |-> "null",
                    denied |-> FALSE, endedAt |-> clock]]
            /\ UNCHANGED <<locationUpdateInProgress, lastPermissionCheck>>
    /\ lastOp' = IF locationUpdateInProgress THEN lastOp
                  ELSE IF lastOp.op = "resetPermissionDenied"
                  THEN [op |-> "updateUserLocation", call |-> p]
                  ELSE NoOp
    /\ UNCHANGED <<permissionDenied, clock, savedLocation>>
    /\ UNCHANGED <<session, cropCycles, nextCropId, diseaseLogs, now>>
    /\ UNCHANGED <<navVars, farmVars, uiVars>>

\* getCurrentUser() settles; with a user, geolocationService.getCurrentLocation
\* is called: it asks the browser, or resolves null when the browser has no
\* navigator.geolocation.
UserSettles(p, outcome, geoSupported) ==
    /\ calls[p].pc = "awaitUser"
    /\ IF outcome # "user"
       THEN /\ calls' = [calls EXCEPT ![p].pc = "done", ![p].result = "null",
                                      ![p].endedAt = clock]
            /\ locationUpdateInProgress' = FlagAtReturn("null")
            /\ UNCHANGED permissionDenied
       ELSE IF geoSupported
       THEN /\ calls' = [calls EXCEPT ![p].pc = "awaitGeo", ![p].geoIssued = TRUE]
            /\ UNCHANGED <<locationUpdateInProgress, permissionDenied>>
       ELSE /\ calls' = [calls EXCEPT ![p].pc = "awaitSaveFallback",
                                      ![p].denied = TRUE]
            /\ permissionDenied' = TRUE
            /\ UNCHANGED locationUpdateInProgress
    /\ UNCHANGED <<lastPermissionCheck, clock, savedLocation>>
    /\ UNCHANGED <<dbVars, navVars, farmVars, uiVars>>

\* The browser answers: a position, or an error (denied, unavailable, timeout).
GeoSettles(p, located) ==
    /\ calls[p].pc = "awaitGeo"
    /\ permissionDenied' = ~located
    /\ calls' = [calls EXCEPT ![p].pc = IF located THEN "awaitSave"
                                       ELSE "awaitSaveFallback",
                              ![p].denied = ~located]
    /\ UNCHANGED <<locationUpdateInProgress, lastPermissionCheck, clock, savedLocation>>
    /\ UNCHANGED <<dbVars, navVars, farmVars, uiVars>>

\* saveLocationToDatabase settles; the finally block clears the flag.
SaveSettles(p, saved) ==
    /\ calls[p].pc \in {"awaitSave", "awaitSaveFallback"}
    /\ LET place == IF calls[p].pc = "awaitSave" THEN "browser" ELSE "Delhi"
           result == IF saved THEN place ELSE "null"
       IN
       /\ savedLocation' = IF saved THEN place ELSE savedLocation
       /\ calls' = [calls EXCEPT ![p].pc = "done", ![p].result = result,
                                 ![p].endedAt = clock]
       /\ locationUpdateInProgress' = FlagAtReturn(result)
    /\ UNCHANGED <<permissionDenied, lastPermissionCheck, clock>>
    /\ UNCHANGED <<dbVars, navVars, farmVars, uiVars>>

\* Mutant: the reset clears the flag and keeps the time of the last check.
CheckAfterReset_Mut(last) == last

\* lastPermissionCheck = 0
CheckAfterReset(last) == 0

ResetPermissionDenied ==
    /\ permissionDenied' = FALSE
    /\ lastPermissionCheck' = CheckAfterReset(lastPermissionCheck)
    /\ lastOp' = [op |-> "resetPermissionDenied"]
    /\ UNCHANGED <<locationUpdateInProgress, clock, calls, savedLocation>>
    /\ UNCHANGED <<session, cropCycles, nextCropId, diseaseLogs, now>>
    /\ UNCHANGED <<navVars, farmVars, uiVars>>

ClockAdvances ==
    /\ \E t \in ClockTimes : t > clock /\ clock' = t
    /\ UNCHANGED <<locationUpdateInProgress, permissionDenied, lastPermissionCheck,
                   calls, savedLocation>>
    /\ UNCHANGED <<dbVars, navVars, farmVars, uiVars>>

NextLocation ==
    \/ \E p \in Calls : UpdateUserLocation(p)
    \/ \E p \in Calls, o \in {"user", "noUser", "throw"}, g \in BOOLEAN : UserSettles(p, o, g)
    \/ \E p \in Calls, l \in BOOLEAN : GeoSettles(p, l)
    \/ \E p \in Calls, sv \in BOOLEAN : SaveSettles(p, sv)
    \/ ResetPermissionDenied
    \/ ClockAdvances

SpecLocation == InitDb /\ [][NextLocation]_vars

\* C2: at most one updateUserLocation call has a browser geolocation request
\* outstanding, and a call made while another call was in flight has
\* returned null without asking the browser for a position.
C2_OneGeolocationRequest ==
    /\ Cardinality({p \in Calls : calls[p].pc = "awaitGeo"}) <= 1
    /\ \A p \in Calls :
          calls[p].busyAtStart =>
              /\ calls[p].pc = "done"
              /\ calls[p].result = "null"
              /\ ~calls[p].geoIssued

\* One call waits for the browser; the other was made meanwhile, after the
\* permission flag had been reset, and was turned away.
C2_Witness ==
    \E p, q \in Calls :
        /\ calls[p].pc = "awaitGeo"
        /\ calls[q].busyAtStart /\ calls[q].result = "null"
        /\ lastPermissionCheck = 0

(***************************************************************************)
(* smartAlertService: generateSmartAlerts.  A forecast day carries the     *)
(* fields of day.day the thresholds read; an alert keeps its id (the kind  *)
(* and, as key, the index of the forecast day or the crop_id it is about)  *)
(* and its priority.                                                       *)
(***************************************************************************)

Calm     == [totalprecip_mm |-> 0, daily_chance_of_rain |-> 25, maxtemp_c |-> 30,
             mintemp_c |-> 15, maxwind_kph |-> 10, avghumidity |-> 50, uv |-> 5]
Storm    == [totalprecip_mm |-> 60, daily_chance_of_rain |-> 90, maxtemp_c |-> 12,
             mintemp_c |-> 3, maxwind_kph |-> 70, avghumidity |-> 90, uv |-> 2]
Monsoon  == [totalprecip_mm |-> 25, daily_chance_of_rain |-> 80, maxtemp_c |-> 38,
             mintemp_c |-> 22, maxwind_kph |-> 20, avghumidity |-> 85, uv |-> 4]
Showers  == [totalprecip_mm |-> 10, daily_chance_of_rain |-> 80, maxtemp_c |-> 20,
             mintemp_c |-> 8, maxwind_kph |-> 45, avghumidity |-> 75, uv |-> 3]
HeatWave == [totalprecip_mm |-> 0, daily_chance_of_rain |-> 0, maxtemp_c |-> 42,
             mintemp_c |-> 25, maxwind_kph |-> 10, avghumidity |-> 30, uv |-> 10]

ForecastDays == {Calm, Storm, Monsoon, Showers, HeatWave}

Forecasts == UNION {[1..n -> ForecastDays] : n \in 1..MaxDays}

\* farm_soil_data rows; total_nitrogen in thousandths.
SoilSamples == {[total_nitrogen |-> 50, organic_carbon |-> 3, ph_level |-> 5],
                [total_nitrogen |-> 200, organic_carbon |-> 10, ph_level |-> 7]}

SoilRow(user, sample) ==
    [user_id |-> user, total_nitrogen |-> sample.total_nitrogen,
     organic_carbon |-> sample.organic_carbon, ph_level |-> sample.ph_level]

SoilRows == {SoilRow("u1", sample) : sample \in SoilSamples}

\* expected_harvest_date, in days; NoDate where the farmer entered none.
HarvestDates == {NoDate, 5, 10}

Alert(id, key, priority) == [id |-> id, key |-> key, priority |-> priority]

When(cond, alert) == IF cond THEN <<alert>> ELSE <<>>

\* JavaScript's  record.field || fallback : a missing field reads undefined.
FieldOr(record, field, fallback) ==
    IF field \in DOMAIN record /\ record[field] # 0 THEN record[field] ELSE fallback

generateRainAlert(i, day) ==
    Alert("rain", i, IF day.totalprecip_mm > 20 THEN "high" ELSE "medium")

generateHeavyRainAlert(i, day) == Alert("heavy-rain", i, "critical")

generateHeatAlert(i, day) ==
    Alert("heat", i, IF day.maxtemp_c > 40 THEN "critical" ELSE "high")

generateColdAlert(i, day) ==
    Alert("cold", i, IF day.mintemp_c < 5 THEN "critical" ELSE "high")

generateWindAlert(i, day) ==
    Alert("wind", i, IF day.maxwind_kph > 60 THEN "critical" ELSE "high")

generateDiseaseRiskAlert(i, day) == Alert("disease-risk", i, "high")

generateIrrigationAlert(i, day) == Alert("irrigation-needed", i, "medium")

generateUVAlert(i, day) == Alert("uv", i, "low")

\* nitrogen < 0.1 || organicCarbon < 5, read from total_nitrogen and
\* organic_carbon of the object getSoilDataFromDatabase returned.
generateFertilizerAlert(soilData) ==
    LET nitrogen == FieldOr(soilData, "total_nitrogen", 0)
        organicCarbon == FieldOr(soilData, "organic_carbon", 0)
    IN  When(nitrogen < 100 \/ organicCarbon < 5, Alert("fertilizer-alert", 0, "high"))

\* crops: the crop_ids getActiveCrops returned, in its order.
RECURSIVE generateHarvestAlerts(_)
generateHarvestAlerts(crops) ==
    IF crops = <<>> THEN <<>>
    ELSE LET crop == Head(crops)
             daysUntilHarvest == harvestDates[crop] - now
         IN  When(/\ harvestDates[crop] # NoDate
                  /\ daysUntilHarvest > 0 /\ daysUntilHarvest <= 14,
                  Alert("harvest", crop,
                        IF daysUntilHarvest <= 7 THEN "high" ELSE "medium"))
             \o generateHarvestAlerts(Tail(crops))

RECURSIVE ForecastAlerts(_, _, _)

\* Mutant: the checks of a day chained with else-if, the first that fires
\* suppressing the others.
DayAlerts_Chained(i, day, recentDiseases) ==
    IF day.totalprecip_mm > 50 THEN <<generateHeavyRainAlert(i, day)>>
    ELSE IF day.daily_chance_of_rain > 70 /\ day.totalprecip_mm > 5
    THEN <<generateRainAlert(i, day)>>
    ELSE IF day.maxtemp_c > 35 THEN <<generateHeatAlert(i, day)>>
    ELSE IF day.mintemp_c < 10 THEN <<generateColdAlert(i, day)>>
    ELSE IF day.maxwind_kph > 40 THEN <<generateWindAlert(i, day)>>
    ELSE IF i = 0 /\ day.avghumidity > 80 /\ recentDiseases > 0
    THEN <<generateDiseaseRiskAlert(i, day)>>
    ELSE When(i < 2 /\ day.uv > 8, generateUVAlert(i, day))

\* The body of the loop over forecast.forecast.forecastday, i from 0.
DayAlerts(i, day, recentDiseases) ==
    (IF day.totalprecip_mm > 50 THEN <<generateHeavyRainAlert(i, day)>>
     ELSE IF day.daily_chance_of_rain > 70 /\ day.totalprecip_mm > 5
     THEN <<generateRainAlert(i, day)>>
     ELSE <<>>)
    \o When(day.maxtemp_c > 35, generateHeatAlert(i, day))
    \o When(day.mintemp_c < 10, generateColdAlert(i, day))
    \o When(day.maxwind_kph > 40, generateWindAlert(i, day))
    \o When(i = 0 /\ day.avghumidity > 80 /\ recentDiseases > 0,
            generateDiseaseRiskAlert(i, day))
    \o When(i < 2 /\ day.uv > 8, generateUVAlert(i, day))

ForecastAlerts(days, k, recentDiseases) ==
    IF k > Len(days) THEN <<>>
    ELSE DayAlerts(k - 1, days[k], recentDiseases)
         \o ForecastAlerts(days, k + 1, recentDiseases)

daysWithoutRain(days) ==
    Cardinality({k \in 1..Len(days) :
        ~(days[k].daily_chance_of_rain > 30 \/ days[k].totalprecip_mm > 1)})

IrrigationAlerts(days) ==
    LET dry == {k \in 1..Len(days) :
                   days[k].daily_chance_of_rain < 20 /\ days[k].totalprecip_mm < 2}
        first == CHOOSE k \in dry : \A j \in dry : k <= j
    IN  IF daysWithoutRain(days) >= 3 /\ dry # {}
        THEN <<generateIrrigationAlert(first - 1, days[first])>>
        ELSE <<>>

MIN_ALERTS == 3
FILLER_TARGET == 4
MAX_ALERTS == 6
RECENT_DISEASE_DAYS == 7

\* generateFillerAlerts.  Each push is guarded by fillers.length < needed,
\* which keeps the first `needed` of the candidates.  It reads
\* forecastday[1].day for the first filler: a TypeError on a forecast of one
\* day (FillersThrow).
FillersThrow(days, currentCount) == FILLER_TARGET - currentCount > 0 /\ Len(days) < 2

generateFillerAlerts(days, crops, soilData, currentCount) ==
    LET needed == IF FILLER_TARGET - currentCount > 0
                  THEN FILLER_TARGET - currentCount ELSE 0
        candidates ==
            <<Alert("weather-summary", 0, "low")>>
            \o When(soilData # {}, Alert("soil-monitoring", 0, "low"))
            \o When(crops # <<>>, Alert("crop-monitoring", 0, "low"))
            \o <<Alert("optimal-conditions", 0, "low"),
                 Alert("weekly-planning", 0, "low")>>
    IN  IF needed = 0 THEN <<>>
        ELSE SubSeq(candidates, 1, IF needed < Len(candidates)
                                   THEN needed ELSE Len(candidates))

priorityOrder == [critical |-> 0, high |-> 1, medium |-> 2, low |-> 3]

\* Mutant: the list is returned in the order the alerts were generated.
SortByPriority_Mut(alerts) == alerts

\* alerts.sort((a, b) => priorityOrder[a.priority] - priorityOrder[b.priority]):
\* a stable sort on the keys of priorityOrder; the alerts of a smaller key
\* come first, those of one key stay in the order they had.
SortByPriority(alerts) ==
    LET keyed(key) == SelectSeq(alerts, LAMBDA a : priorityOrder[a.priority] = key)
    IN  keyed(0) \o keyed(1) \o keyed(2) \o keyed(3)

\* Mutant: the list is returned whole.
slice_Mut(alerts, end) == alerts

\* alerts.slice(0, 6)
slice(alerts, end) == SubSeq(alerts, 1, IF end < Len(alerts) THEN end ELSE Len(alerts))

\* The crop_ids of a set of rows, .order('crop_id', { ascending: false }).
RECURSIVE DescendingIds(_)
DescendingIds(ids) ==
    IF ids = {} THEN <<>>
    ELSE LET top == CHOOSE c \in ids : \A d \in ids : d <= c
         IN  <<top>> \o DescendingIds(ids \ {top})

\* getActiveCrops: [] without a user, on a query error and on an exception.
getActiveCrops(fetched) ==
    IF ~fetched \/ session = NoUser THEN <<>>
    ELSE DescendingIds({r.crop_id : r \in {x \in cropCycles :
                            x.user_id = session /\ x.is_active}})

\* getSoilDataFromDatabase: null (the empty set) without a user, on an error
\* and without a row; else the row converted to the SoilData format.
getSoilDataFromDatabase(fetched) ==
    IF ~fetched \/ session = NoUser THEN {}
    ELSE {[pH |-> FieldOr(record, "ph_level", 7),
           nitrogen |-> FieldOr(record, "total_nitrogen", 0),
           organicCarbon |-> FieldOr(record, "organic_carbon", 0)] :
              record \in {r \in farmSoilData :
                            r.user_id = session /\ RlsVisible(r)}}

\* The disease_logs of the user of the last 7 days.
recentDiseasesOf(userFound) ==
    IF ~userFound \/ session = NoUser THEN 0
    ELSE BagCardinality([r \in {x \in DOMAIN diseaseLogs :
                                   /\ x.user_id = session
                                   /\ x.detection_date >= now - RECENT_DISEASE_DAYS}
                            |-> diseaseLogs[r]])

generateSmartAlerts(forecastOk, crops, soilData, recentDiseases) ==
    IF ~forecastOk THEN <<>>
    ELSE LET ruled == ForecastAlerts(forecastday, 1, recentDiseases)
                      \o IrrigationAlerts(forecastday)
                      \o (IF soilData = {} THEN <<>>
                          ELSE generateFertilizerAlert(CHOOSE s \in soilData : TRUE))
                      \o generateHarvestAlerts(crops)
         IN  IF Len(ruled) < MIN_ALERTS /\ FillersThrow(forecastday, Len(ruled))
             THEN <<>>
             ELSE LET alerts == IF Len(ruled) < MIN_ALERTS
                                THEN ruled \o generateFillerAlerts(forecastday, crops,
                                                                   soilData, Len(ruled))
                                ELSE ruled
                  IN  slice(SortByPriority(alerts), MAX_ALERTS)

GenerateSmartAlerts(forecastOk, cropsFetched, soilFetched, userFound) ==
    /\ lastOp' = [op |-> "generateSmartAlerts", forecastOk |-> forecastOk,
                  pushed |-> IF forecastOk
                             THEN ForecastAlerts(forecastday, 1,
                                                 recentDiseasesOf(userFound))
                             ELSE <<>>,
                  result |-> generateSmartAlerts(forecastOk,
                                                 getActiveCrops(cropsFetched),
                                                 getSoilDataFromDatabase(soilFetched),
                                                 recentDiseasesOf(userFound))]
    /\ UNCHANGED <<session, cropCycles, nextCropId, diseaseLogs, now>>
    /\ UNCHANGED <<locVars, navVars, farmVars, uiVars>>

\* A fetch can fail where there is something to fetch.
FetchesOf(present) == IF present THEN BOOLEAN ELSE {TRUE}

(***************************************************************************)
(* A signed-in farmer with up to MaxCrops active crops sown together, a    *)
(* forecast, and possibly a soil analysis and a disease log of today.      *)
(***************************************************************************)
InitAlerts ==
    /\ session = "u1"
    /\ nextCropId \in 1..(MaxCrops + 1)
    /\ cropCycles = {[crop_id |-> c, user_id |-> "u1", crop_name |-> "Wheat",
                      is_active |-> TRUE, manual_status |-> NoStatus,
                      manual_status_updated_at |-> 0] : c \in 1..(nextCropId - 1)}
    /\ now = 0
    /\ diseaseLogs \in {EmptyBag,
                        SetToBag({[user_id |-> "u1", crop_cycle_id |-> NoCrop,
                                   detection_date |-> 0, severity |-> "moderate"]})}
    /\ lastOp = NoOp
    /\ LocationModuleLoaded
    /\ AppMounted
    /\ ComponentsMounted
    /\ forecastday \in Forecasts
    /\ farmSoilData \in {{}} \cup {{r} : r \in SoilRows}
    /\ harvestDates \in {[c \in CropIds |-> IF c < nextCropId THEN date ELSE NoDate] :
                            date \in HarvestDates}
    /\ cropSuggestions = {}
    /\ nextSuggestionId = 1

NextAlerts ==
    \E forecastOk \in BOOLEAN :
        \E cropsFetched \in FetchesOf(forecastOk /\ cropCycles # {}),
           soilFetched \in FetchesOf(forecastOk /\ farmSoilData # {}),
           userFound \in FetchesOf(forecastOk /\ diseaseLogs # EmptyBag) :
            GenerateSmartAlerts(forecastOk, cropsFetched, soilFetched, userFound)

SpecAlerts == InitAlerts /\ [][NextAlerts]_vars

\* C5: in the list generateSmartAlerts returned, no alert is preceded by an
\* alert of strictly lower priority, the priorities running from critical
\* (highest) over high and medium to low.
C5_OrderedByPriority ==
    lastOp.op = "generateSmartAlerts" =>
        LET order == <<"critical", "high", "medium", "low">>
            rank(p) == CHOOSE n \in 1..4 : order[n] = p
            result == lastOp.result
        IN  \A i, j \in 1..Len(result) :
                i < j => rank(result[i].priority) <= rank(result[j].priority)

\* A returned list in which the critical heat alert of the second forecast
\* day stands before the rain alert of the first day, in a full list of six.
C5_Witness ==
    /\ lastOp.op = "generateSmartAlerts"
    /\ Len(lastOp.result) = MAX_ALERTS
    /\ \E i, j \in 1..Len(lastOp.result) :
          /\ i < j
          /\ lastOp.result[i].id = "heat" /\ lastOp.result[i].key = 1
          /\ lastOp.result[i].priority = "critical"
          /\ lastOp.result[j].id = "rain" /\ lastOp.result[j].key = 0

(***************************************************************************)
(* App: the screen navigation.  One farmer, "u1", uses the browser; the    *)
(* session is the one the auth client holds.  A handler that awaits is     *)
(* split at its awaits.                                                    *)
(***************************************************************************)
AuthenticatedScreens == {"welcome", "phase-selection", "crop-details", "home"}

\* The currentScreen the effect of the first render closed over: the
\* onAuthStateChange callback reads this value whenever it runs.
ScreenAtMount == "loading"

Phases == {"pre-planting", "growth"}

\* What the farmer typed; "" is the empty field.
NameInputs == CropNames \cup {""}
DateInputs == {"", "2025-11-01"}

NotSubmitting == [pc |-> "idle", name |-> "", user |-> NoUser]

\* supabase.auth.onAuthStateChange((_event, session) => ...)
onAuthStateChange(hasSession, screen) ==
    IF hasSession
    THEN IF ScreenAtMount = "login" THEN "home" ELSE screen
    ELSE "login"

\* An auth event that carries the current session (INITIAL_SESSION,
\* TOKEN_REFRESHED, SIGNED_IN) or, with nobody signed in, none.
AuthEvent ==
    /\ currentScreen' = onAuthStateChange(session # NoUser, currentScreen)
    /\ lastOp' = NoOp
    /\ UNCHANGED <<session, cropCycles, nextCropId, diseaseLogs, now>>
    /\ UNCHANGED <<sessionCheck, otp, submit>>
    /\ UNCHANGED <<locVars, farmVars, uiVars>>

\* Settings.handleLogout: signOut() ends the session; the client then
\* notifies the callback with SIGNED_OUT.
HandleLogout ==
    /\ currentScreen = "home"
    /\ session # NoUser
    /\ session' = NoUser
    /\ currentScreen' = onAuthStateChange(FALSE, currentScreen)
    /\ lastOp' = NoOp
    /\ UNCHANGED <<cropCycles, nextCropId, diseaseLogs, now>>
    /\ UNCHANGED <<sessionCheck, otp, submit>>
    /\ UNCHANGED <<locVars, farmVars, uiVars>>

\* The session ends outside this page: a sign-out in another tab of the
\* browser, or a refresh of the token that the auth server refuses.  The
\* client notifies the callback with SIGNED_OUT.
SessionEndsElsewhere ==
    /\ session # NoUser
    /\ session' = NoUser
    /\ currentScreen' = onAuthStateChange(FALSE, currentScreen)
    /\ lastOp' = NoOp
    /\ UNCHANGED <<cropCycles, nextCropId, diseaseLogs, now>>
    /\ UNCHANGED <<sessionCheck, otp, submit>>
    /\ UNCHANGED <<locVars, farmVars, uiVars>>

\* checkSession, when getSession() settles; it throws with ok = FALSE.
CheckSessionReturns(ok) ==
    /\ sessionCheck = "pending"
    /\ sessionCheck' = "done"
    /\ LET found == ok /\ session # NoUser IN
       /\ currentScreen' = IF found THEN "home" ELSE "login"
       /\ lastOp' = [op |-> "checkSession",
                     result |-> IF found THEN "session" ELSE "none"]
    /\ UNCHANGED <<session, cropCycles, nextCropId, diseaseLogs, now>>
    /\ UNCHANGED <<otp, submit>>
    /\ UNCHANGED <<locVars, farmVars, uiVars>>

\* LoginSignup.handleVerifyOtp up to its await; the button is disabled
\* while a verification is under way.
HandleVerifyOtp(sixDigits) ==
    /\ currentScreen = "login"
    /\ otp = "idle"
    /\ otp' = IF sixDigits THEN "pending" ELSE otp
    /\ lastOp' = NoOp
    /\ UNCHANGED <<session, cropCycles, nextCropId, diseaseLogs, now>>
    /\ UNCHANGED <<currentScreen, sessionCheck, submit>>
    /\ UNCHANGED <<locVars, farmVars, uiVars>>

\* verifyOtp settles: with a user (the client now holds the session), with
\* an error, or with neither.  The auth client serves its calls one at a
\* time, so the getSession of checkSession, called at mount, has settled.
VerifyOtpReturns(outcome) ==
    /\ otp = "pending"
    /\ sessionCheck = "done"
    /\ otp' = "idle"
    /\ IF outcome = "user"
       THEN /\ session' = "u1"
            /\ currentScreen' = "welcome"
       ELSE UNCHANGED <<session, currentScreen>>
    /\ lastOp' = [op |-> "verifyOtp", result |-> outcome]
    /\ UNCHANGED <<cropCycles, nextCropId, diseaseLogs, now>>
    /\ UNCHANGED <<sessionCheck, submit>>
    /\ UNCHANGED <<locVars, farmVars, uiVars>>

\* WelcomeHome: onNewCrop
HandleNewCrop ==
    /\ currentScreen = "welcome"
    /\ currentScreen' = "phase-selection"
    /\ lastOp' = NoOp
    /\ UNCHANGED <<session, cropCycles, nextCropId, diseaseLogs, now>>
    /\ UNCHANGED <<sessionCheck, otp, submit>>
    /\ UNCHANGED <<locVars, farmVars, uiVars>>

\* WelcomeHome: onContinueExisting
HandleContinueExisting ==
    /\ currentScreen = "welcome"
    /\ currentScreen' = "home"
    /\ lastOp' = NoOp
    /\ UNCHANGED <<session, cropCycles, nextCropId, diseaseLogs, now>>
    /\ UNCHANGED <<sessionCheck, otp, submit>>
    /\ UNCHANGED <<locVars, farmVars, uiVars>>

\* CropPhaseSelection: onPhaseSelect
HandlePhaseSelection(phase) ==
    /\ currentScreen = "phase-selection"
    /\ currentScreen' = IF phase = "pre-planting" THEN "home" ELSE "crop-details"
    /\ lastOp' = NoOp
    /\ UNCHANGED <<session, cropCycles, nextCropId, diseaseLogs, now>>
    /\ UNCHANGED <<sessionCheck, otp, submit>>
    /\ UNCHANGED <<locVars, farmVars, uiVars>>

\* HomePage: onLogoClick
HandleLogoClick ==
    /\ currentScreen = "home"
    /\ currentScreen' = "welcome"
    /\ lastOp' = NoOp
    /\ UNCHANGED <<session, cropCycles, nextCropId, diseaseLogs, now>>
    /\ UNCHANGED <<sessionCheck, otp, submit>>
    /\ UNCHANGED <<locVars, farmVars, uiVars>>

\* HomePage: onAddCrop
HandleAddCrop ==
    /\ currentScreen = "home"
    /\ currentScreen' = "phase-selection"
    /\ lastOp' = NoOp
    /\ UNCHANGED <<session, cropCycles, nextCropId, diseaseLogs, now>>
    /\ UNCHANGED <<sessionCheck, otp, submit>>
    /\ UNCHANGED <<locVars, farmVars, uiVars>>

\* CropDetails.handleSubmit up to the await inside addCropCycle; the button
\* is disabled while a submission is under way.
HandleSubmit(name, date) ==
    /\ currentScreen = "crop-details"
    /\ submit.pc = "idle"
    /\ submit' = IF name = "" \/ date = ""
                 THEN submit
                 ELSE [pc |-> "awaitUser", name |-> name, user |-> NoUser]
    /\ lastOp' = NoOp
    /\ UNCHANGED <<session, cropCycles, nextCropId, diseaseLogs, now>>
    /\ UNCHANGED <<currentScreen, sessionCheck, otp>>
    /\ UNCHANGED <<locVars, farmVars, uiVars>>

\* Mutant: onSubmit is called whatever addCropCycle returned.
ScreenAfterSubmit_Mut(saved, screen) == "home"

\* if (result) onSubmit(...) -> handleCropDetailsSubmit: setCurrentScreen('home');
\* else setError(...).
ScreenAfterSubmit(saved, screen) == IF saved THEN "home" ELSE screen

\* addCropCycle: getCurrentUser() settles.  Without a user addCropCycle
\* throws, catches and returns null; with one, the insert is sent in the
\* name of that user.
SubmitUserSettles(authOk) ==
    /\ submit.pc = "awaitUser"
    /\ LET user == getCurrentUser(authOk) IN
       IF user = NoUser
       THEN /\ submit' = NotSubmitting
            /\ currentScreen' = ScreenAfterSubmit(FALSE, currentScreen)
            /\ lastOp' = [op |-> "handleSubmit", result |-> "failed", crop |-> NoCrop]
       ELSE /\ submit' = [submit EXCEPT !.pc = "awaitInsert", !.user = user]
            /\ lastOp' = NoOp
            /\ UNCHANGED currentScreen
    /\ UNCHANGED <<session, cropCycles, nextCropId, diseaseLogs, now>>
    /\ UNCHANGED <<sessionCheck, otp>>
    /\ UNCHANGED <<locVars, farmVars, uiVars>>

\* addCropCycle: the insert settles, with the row or with an error, and
\* handleSubmit runs to its end.
SubmitInsertReturns(dbOk) ==
    /\ submit.pc = "awaitInsert"
    /\ dbOk => nextCropId <= MaxCrops
    /\ submit' = NotSubmitting
    /\ currentScreen' = ScreenAfterSubmit(dbOk, currentScreen)
    /\ IF dbOk
       THEN /\ cropCycles' = cropCycles \cup {NewCropRow(submit.user, submit.name)}
            /\ nextCropId' = nextCropId + 1
            /\ lastOp' = [op |-> "handleSubmit", result |-> "saved", crop |-> nextCropId]
       ELSE /\ UNCHANGED <<cropCycles, nextCropId>>
            /\ lastOp' = [op |-> "handleSubmit", result |-> "failed", crop |-> NoCrop]
    /\ UNCHANGED <<session, diseaseLogs, now>>
    /\ UNCHANGED <<sessionCheck, otp>>
    /\ UNCHANGED <<locVars, farmVars, uiVars>>

(***************************************************************************)
(* The page is opened, with or without a session kept from an earlier      *)
(* visit.                                                                  *)
(***************************************************************************)
InitApp ==
    /\ session \in {NoUser, "u1"}
    /\ cropCycles = {}
    /\ nextCropId = 1
    /\ diseaseLogs = EmptyBag
    /\ now = 0
    /\ lastOp = NoOp
    /\ LocationModuleLoaded
    /\ AppMounted
    /\ ComponentsMounted
    /\ NoFarmData

NextApp ==
    \/ AuthEvent
    \/ HandleLogout
    \/ SessionEndsElsewhere
    \/ \E ok \in BOOLEAN : CheckSessionReturns(ok)
    \/ \E sixDigits \in BOOLEAN : HandleVerifyOtp(sixDigits)
    \/ \E outcome \in {"user", "error", "noUser"} : VerifyOtpReturns(outcome)
    \/ HandleNewCrop
    \/ HandleContinueExisting
    \/ \E phase \in Phases : HandlePhaseSelection(phase)
    \/ HandleLogoClick
    \/ HandleAddCrop
    \/ \E name \in NameInputs, date \in DateInputs : HandleSubmit(name, date)
    \/ \E authOk \in BOOLEAN : SubmitUserSettles(authOk)
    \/ \E dbOk \in BOOLEAN : SubmitInsertReturns(dbOk)

SpecApp == InitApp /\ [][NextApp]_vars

\* handleSubmit has run to its end with the row / without one.
SubmitSaved == SubmitInsertReturns(TRUE)

SubmitFailed == SubmitInsertReturns(FALSE) \/ (SubmitUserSettles(TRUE) /\ session = NoUser)
                \/ SubmitUserSettles(FALSE)

\* C9: a submission of the crop-details form (non-empty name and date) that
\* addCropCycle answers with the row has persisted that row, active and
\* under the submitted name; the app goes from crop-details to home only in
\* the step in which addCropCycle returned the persisted row; and when
\* persisting fails the submission leaves the screen as it is: a farmer on
\* crop-details stays there.
C9_HomeOnlyAfterRowPersisted ==
    [][/\ SubmitSaved =>
             \E r \in cropCycles' \ cropCycles :
                 /\ r.crop_name = submit.name /\ submit.name # ""
                 /\ r.user_id = submit.user /\ r.is_active
                 /\ r.crop_id = lastOp'.crop
       /\ (currentScreen = "crop-details" /\ currentScreen' = "home") => SubmitSaved
       /\ SubmitFailed => currentScreen' = currentScreen]_vars

\* A submission failed on crop-details, the farmer is still there, and an
\* earlier submission had saved a Rice row and gone home.
C9_Witness ==
    /\ lastOp.op = "handleSubmit" /\ lastOp.result = "failed"
    /\ currentScreen = "crop-details"
    /\ \E r \in cropCycles : r.crop_name = "Rice" /\ r.is_active /\ r.user_id = "u1"

\* C10: the app goes from login to welcome, phase-selection, crop-details or
\* home only in a step in which verifyOtp returned a user without an error
\* or checkSession found a session.
C10_LeavesLoginOnlyAuthenticated ==
    [][(currentScreen = "login" /\ currentScreen' \in AuthenticatedScreens) =>
          \/ VerifyOtpReturns("user")
          \/ CheckSessionReturns(TRUE) /\ session # NoUser]_vars

(***************************************************************************)
(* soil-db and the suggestion functions of user-location: the tables       *)
(* farm_soil_data and crop_suggestions, each under the policies            *)
(* auth.uid() = user_id.                                                   *)
(***************************************************************************)
MaxSuggestions == 1
MaxRows == 2

NoFeedback == "null"
Feedback == {"helpful", "notHelpful"}

\* The rows of a table a request of the session gets to see.
VisibleRows(table) == {r \in table : RlsVisible(r)}

OwnersOf(rows) == {r.user_id : r \in rows}

\* saveSoilDataToDatabase
saveSoilDataToDatabase(sample, authOk, dbOk) ==
    LET user == getCurrentUser(authOk)
    IN  IF user = NoUser \/ ~dbOk \/ ~RlsVisible(SoilRow(user, sample))
        THEN farmSoilData
        ELSE farmSoilData \cup {SoilRow(user, sample)}

SaveSoilDataToDatabase(sample, authOk, dbOk) ==
    /\ farmSoilData' = saveSoilDataToDatabase(sample, authOk, dbOk)
    /\ lastOp' = NoOp
    /\ UNCHANGED <<session, cropCycles, nextCropId, diseaseLogs, now>>
    /\ UNCHANGED <<forecastday, harvestDates, cropSuggestions, nextSuggestionId>>
    /\ UNCHANGED <<locVars, navVars, uiVars>>

\* getAllSoilDataFromDatabase: .eq('user_id', user.id)
getAllSoilDataFromDatabase(authOk, dbOk) ==
    LET user == getCurrentUser(authOk)
    IN  IF user = NoUser \/ ~dbOk THEN {}
        ELSE {r \in VisibleRows(farmSoilData) : r.user_id = user}

GetAllSoilDataFromDatabase(authOk, dbOk) ==
    /\ lastOp' = [op |-> "getAllSoilDataFromDatabase",
                  owners |-> OwnersOf(getAllSoilDataFromDatabase(authOk, dbOk))]
    /\ UNCHANGED <<session, cropCycles, nextCropId, diseaseLogs, now>>
    /\ UNCHANGED <<locVars, navVars, farmVars, uiVars>>

NewSuggestionRow(user, expired) ==
    [suggestion_id |-> nextSuggestionId, user_id |-> user, is_active |-> TRUE,
     is_helpful |-> NoFeedback, expired |-> expired]

\* createSuggestion; expired: expires_at lies in the past.
CreateSuggestion(expired, authOk, dbOk) ==
    LET user == getCurrentUser(authOk)
    IN
    /\ IF user # NoUser /\ dbOk /\ RlsVisible(NewSuggestionRow(user, expired))
       THEN /\ nextSuggestionId <= MaxSuggestions
            /\ cropSuggestions' = cropSuggestions \cup {NewSuggestionRow(user, expired)}
            /\ nextSuggestionId' = nextSuggestionId + 1
       ELSE UNCHANGED <<cropSuggestions, nextSuggestionId>>
    /\ lastOp' = NoOp
    /\ UNCHANGED <<session, cropCycles, nextCropId, diseaseLogs, now>>
    /\ UNCHANGED <<forecastday, farmSoilData, harvestDates>>
    /\ UNCHANGED <<locVars, navVars, uiVars>>

\* getActiveSuggestions: own, active, not expired
getActiveSuggestions(authOk, dbOk) ==
    LET user == getCurrentUser(authOk)
    IN  IF user = NoUser \/ ~dbOk THEN {}
        ELSE {r \in VisibleRows(cropSuggestions) :
                r.user_id = user /\ r.is_active /\ ~r.expired}

GetActiveSuggestions(authOk, dbOk) ==
    /\ lastOp' = [op |-> "getActiveSuggestions",
                  owners |-> OwnersOf(getActiveSuggestions(authOk, dbOk))]
    /\ UNCHANGED <<session, cropCycles, nextCropId, diseaseLogs, now>>
    /\ UNCHANGED <<locVars, navVars, farmVars, uiVars>>

\* .update(...).eq('suggestion_id', suggestionId).eq('user_id', user.id)
SuggestionsAfterUpdate(suggestionId, user, column, value) ==
    {IF r.suggestion_id = suggestionId /\ r.user_id = user /\ RlsVisible(r)
     THEN [r EXCEPT ![column] = value] ELSE r : r \in cropSuggestions}

MarkSuggestionHelpful(suggestionId, isHelpful, authOk, dbOk) ==
    LET user == getCurrentUser(authOk)
    IN
    /\ cropSuggestions' = IF user # NoUser /\ dbOk
                          THEN SuggestionsAfterUpdate(suggestionId, user, "is_helpful", isHelpful)
                          ELSE cropSuggestions
    /\ lastOp' = NoOp
    /\ UNCHANGED <<session, cropCycles, nextCropId, diseaseLogs, now>>
    /\ UNCHANGED <<forecastday, farmSoilData, harvestDates, nextSuggestionId>>
    /\ UNCHANGED <<locVars, navVars, uiVars>>

DeactivateSuggestion(suggestionId, authOk, dbOk) ==
    LET user == getCurrentUser(authOk)
    IN
    /\ cropSuggestions' = IF user # NoUser /\ dbOk
                          THEN SuggestionsAfterUpdate(suggestionId, user, "is_active", FALSE)
                          ELSE cropSuggestions
    /\ lastOp' = NoOp
    /\ UNCHANGED <<session, cropCycles, nextCropId, diseaseLogs, now>>
    /\ UNCHANGED <<forecastday, farmSoilData, harvestDates, nextSuggestionId>>
    /\ UNCHANGED <<locVars, navVars, uiVars>>

\* .delete().eq('user_id', user.id).lt('expires_at', now)
DeleteExpiredSuggestions(authOk, dbOk) ==
    LET user == getCurrentUser(authOk)
    IN
    /\ cropSuggestions' =
          IF user # NoUser /\ dbOk
          THEN {r \in cropSuggestions :
                   ~(r.user_id = user /\ r.expired /\ RlsVisible(r))}
          ELSE cropSuggestions
    /\ lastOp' = NoOp
    /\ UNCHANGED <<session, cropCycles, nextCropId, diseaseLogs, now>>
    /\ UNCHANGED <<forecastday, farmSoilData, harvestDates, nextSuggestionId>>
    /\ UNCHANGED <<locVars, navVars, uiVars>>

(***************************************************************************)
(* Several farmers on one database: every data-access operation on the     *)
(* four tables.  RowCount bounds the rows the tables hold together.        *)
(***************************************************************************)
RowCount ==
    Cardinality(cropCycles) + LogCount(diseaseLogs)
        + Cardinality(farmSoilData) + Cardinality(cropSuggestions)

\* The model answer with which the chatbot logs a severe disease.
SevereRun ==
    <<TRUE, 1000, [form |-> "plain", bold |-> "Leaf Blight", words |-> {"severe", "mild"}]>>

NeutralSample == CHOOSE s \in SoilSamples : s.ph_level = 7

NextTenants ==
    \/ \E u \in Users : SignIn(u)
    \/ SignOut
    \/ RowCount < MaxRows /\ AddCropCycle("Wheat", TRUE, TRUE)
    \/ \E c \in CropIds : MarkCropAsHarvested(c, TRUE, TRUE)
    \/ \E c \in CropIds : DeleteCropCycle(c, TRUE, TRUE)
    \/ \E c \in CropIds : UpdateCropStatus(c, "critical", TRUE, TRUE)
    \/ /\ RowCount < MaxRows
       /\ \E c \in CropPicksOf(TRUE, "", TRUE) :
             SendImage(TRUE, TRUE, SevereRun, "hi", "", TRUE, TRUE, c)
    \/ \E r \in cropCycles : GetCropStatus(r.crop_id, "ok", "ok")
    \/ RowCount < MaxRows /\ \E a \in BOOLEAN :
          SaveSoilDataToDatabase(NeutralSample, a, TRUE)
    \/ \E a, d \in BOOLEAN : GetAllSoilDataFromDatabase(a, d)
    \/ RowCount < MaxRows /\ \E e, a \in BOOLEAN : CreateSuggestion(e, a, TRUE)
    \/ \E a, d \in BOOLEAN : GetActiveSuggestions(a, d)
    \/ \E i \in 1..MaxSuggestions : DeactivateSuggestion(i, TRUE, TRUE)
    \/ \E a \in BOOLEAN : DeleteExpiredSuggestions(a, TRUE)

SpecTenants == InitDb /\ [][NextTenants]_vars

\* The rows of a table of other users than the one signed in.
ForeignRows(table) == {r \in table : r.user_id # session}

\* A step leaves every row of another user in its table as it was.
WritesOwnRowsOnly ==
    /\ ForeignRows(cropCycles) \subseteq cropCycles'
    /\ \A r \in ForeignRows(DOMAIN diseaseLogs) :
          CopiesOf(r, diseaseLogs') = CopiesOf(r, diseaseLogs)
    /\ ForeignRows(farmSoilData) \subseteq farmSoilData'
    /\ ForeignRows(cropSuggestions) \subseteq cropSuggestions'

\* The rows the queries of getCropStatus return for the crop cropId.
CropStatusRows(cropId) ==
    (IF ManualRowFound(cropId, "ok") THEN {CropRow(cropId)} ELSE {})
        \cup DOMAIN RecentLogs(cropId)

\* Whatever a read returns is of the user signed in.
ReadsOwnRowsOnly ==
    /\ \A cropId \in CropIds : OwnersOf(CropStatusRows(cropId)) \subseteq {session}
    /\ \A u \in Users : OwnersOf(ActiveCropsOf(u)) \subseteq {session}
    /\ lastOp.op \in {"getAllSoilDataFromDatabase", "getActiveSuggestions"}
          => lastOp.owners \subseteq {session}
    /\ (/\ lastOp.op = "getCropStatus"
        /\ (HasCrop(lastOp.crop) => CropRow(lastOp.crop).user_id # session))
          => lastOp.result = "healthy"

DayGrid ==
    [totalprecip_mm : {0, 10, 60}, daily_chance_of_rain : {25, 80},
     maxtemp_c : {30, 40}, mintemp_c : {5, 15}, maxwind_kph : {20, 50},
     avghumidity : {50, 90}, uv : {5, 9}]

GridForecasts ==
    {[k \in 1..n |-> IF k < n THEN Calm ELSE day] : n \in 1..MaxDays, day \in DayGrid}

InitThresholds ==
    /\ session = "u1"
    /\ cropCycles = {}
    /\ nextCropId = 1
    /\ now = 0
    /\ diseaseLogs \in {EmptyBag,
                        SetToBag({[user_id |-> "u1", crop_cycle_id |-> NoCrop,
                                   detection_date |-> 0, severity |-> "moderate"]})}
    /\ lastOp = NoOp
    /\ LocationModuleLoaded
    /\ AppMounted
    /\ ComponentsMounted
    /\ forecastday \in GridForecasts
    /\ farmSoilData = {}
    /\ harvestDates = [c \in CropIds |-> NoDate]
    /\ cropSuggestions = {}
    /\ nextSuggestionId = 1

NextThresholds ==
    \E forecastOk \in BOOLEAN :
        \E userFound \in FetchesOf(forecastOk /\ diseaseLogs # EmptyBag) :
            GenerateSmartAlerts(forecastOk, TRUE, TRUE, userFound)

SpecThresholds == InitThresholds /\ [][NextThresholds]_vars

\* The forecast fields the loop checks, the columns of each and the alerts
\* that belong to it.
AlertFields == {"rain", "temperature", "wind", "uv"}

FieldColumns ==
    [rain |-> {"totalprecip_mm", "daily_chance_of_rain"},
     temperature |-> {"maxtemp_c", "mintemp_c"},
     wind |-> {"maxwind_kph"},
     uv |-> {"uv"}]

FieldAlerts ==
    [rain |-> {"rain", "heavy-rain"}, temperature |-> {"heat", "cold"},
     wind |-> {"wind"}, uv |-> {"uv"}]

\* UV alerts (only for next 2 days)
UV_DAYS == 2

SameOn(field, day, other) == \A c \in FieldColumns[field] : day[c] = other[c]

\* alerts holds an alert of the field for the day of index i.
AlertedFor(field, alerts, i) ==
    \E k \in DOMAIN alerts : alerts[k].id \in FieldAlerts[field] /\ alerts[k].key = i

\* Whether the loop body generates an alert of the field for a day at index
\* i, for every day of the grid.
FieldAlertTable ==
    [field \in AlertFields, i \in 0..(MaxDays - 1), day \in DayGrid,
     recentDiseases \in 0..1 |->
        AlertedFor(field, DayAlerts(i, day, recentDiseases), i)]

Alerted == lastOp.op = "generateSmartAlerts" /\ lastOp.forecastOk

\* The days of the grid that agree with the day on the columns of the field.
VariantsOf(field, day) == {other \in DayGrid : SameOn(field, day, other)}

\* C12 as stated: whether the loop generates an alert of a field for a day
\* is the same for every day, at any place of the forecast, that has the
\* field's values, whatever its other values and the other alerts.
C12_DependsOnOwnFieldOnly ==
    Alerted =>
        \A k \in DOMAIN forecastday, field \in AlertFields :
            \A other \in VariantsOf(field, forecastday[k]),
               i \in 0..(MaxDays - 1), recentDiseases \in 0..1 :
                AlertedFor(field, lastOp.pushed, k - 1)
                    = FieldAlertTable[field, i, other, recentDiseases]

\* C12: whether the loop generates an alert of a field for a day depends on
\* the field's values for that day alone, not on the other fields nor on the
\* other alerts; for the UV index also on whether the day is one of the
\* first two of the forecast.
C12_DependsOnOwnFieldAndUvDay ==
    Alerted =>
        \A k \in DOMAIN forecastday, field \in AlertFields :
            \A other \in VariantsOf(field, forecastday[k]),
               i \in 0..(MaxDays - 1), recentDiseases \in 0..1 :
                (field = "uv" => (k - 1 < UV_DAYS) = (i < UV_DAYS))
                    => AlertedFor(field, lastOp.pushed, k - 1)
                          = FieldAlertTable[field, i, other, recentDiseases]

\* A third day over every threshold: the loop generated the rain, heat and
\* wind alerts for it, and no UV alert.
C12_Witness ==
    /\ Alerted
    /\ Len(forecastday) = 3
    /\ forecastday[3].uv > 8
    /\ forecastday[3].maxtemp_c > 35
    /\ forecastday[3].maxwind_kph > 40
    /\ forecastday[3].totalprecip_mm > 50
    /\ AlertedFor("rain", lastOp.pushed, 2)
    /\ AlertedFor("temperature", lastOp.pushed, 2)
    /\ AlertedFor("wind", lastOp.pushed, 2)
    /\ ~AlertedFor("uv", lastOp.pushed, 2)

(***************************************************************************)
(* Properties of the flags of updateUserLocation.                          *)
(***************************************************************************)
Running(p) == calls[p].pc \in InFlight

\* C13: locationUpdateInProgress is true exactly while an updateUserLocation
\* call is in flight; once the call has returned, by whichever path, the
\* flag is false, so that a call finds the flag set only while another
\* call is in flight.
C13_FlagOnlyWhileInFlight ==
    locationUpdateInProgress <=> \E p \in Calls : Running(p)

\* C13 witness: one call got a position, failed to save it and returned
\* null; a call made later is under way.
C13_Witness ==
    \E p, q \in Calls :
        /\ calls[p].pc = "done" /\ calls[p].result = "null"
        /\ calls[p].geoIssued /\ ~calls[p].denied
        /\ calls[p].endedAt < clock
        /\ Running(q) /\ ~calls[q].busyAtStart
        /\ lastPermissionCheck = clock

\* A call p is made in this step.
Made(p) == calls[p].pc \in {"idle", "done"} /\ calls'[p] # calls[p]

\* An attempt has ended with permission recorded as denied, less than 60
\* seconds ago, and the record stands.
DeniedRecently ==
    /\ permissionDenied
    /\ \E p \in Calls :
          /\ calls[p].pc = "done" /\ calls[p].denied
          /\ clock - calls[p].endedAt < PERMISSION_CHECK_COOLDOWN

\* C14: a call made less than 60 seconds after an attempt that ended with
\* permission recorded as denied, with no resetPermissionDenied in between,
\* returns null without a browser geolocation request.
C14_TurnedAwayAfterDenial ==
    [][\A q \in Calls :
          Made(q) /\ DeniedRecently =>
              /\ calls'[q].pc = "done"
              /\ calls'[q].result = "null"
              /\ ~calls'[q].geoIssued]_vars

\* C15: the fallback coordinates (Delhi) are written only over no saved
\* location or over the fallback itself, never over a location saved from
\* the browser.
C15_FallbackNeverOverwrites ==
    [][savedLocation' = "Delhi" /\ savedLocation # "Delhi"
          => savedLocation = "none"]_vars

(***************************************************************************)
(* VoiceService: speak, speakWithGoogleTTS and stop.  playing holds the    *)
(* calls whose Audio element sounds; window.speechSynthesis speaks the     *)
(* head of its queue.                                                      *)
(***************************************************************************)
\* The current audio paused and forgotten.
PlayingAfterStop == IF currentAudio # NoCall THEN playing \ {currentAudio} ELSE playing

\* if (this.synthesis.speaking) this.synthesis.cancel()
SynthesisAfterStop == <<>>

\* A call whose output stop() ended has nothing more to do.
SpeaksAfterStop ==
    [q \in Calls |->
        IF (speaks[q] = "playing" /\ q = currentAudio) \/ speaks[q] = "speaking"
        THEN "ended" ELSE speaks[q]]

\* new SpeechSynthesisUtterance(text) ... this.synthesis.speak(utterance)
SpeakUtterance(p, queue, made) ==
    /\ synthesis' = Append(queue, p)
    /\ currentUtterance' = p
    /\ speaks' = [made EXCEPT ![p] = "speaking"]

\* speak(text, language).  google: Google TTS is enabled for the voice.
Speak(p, voiceEnabled, google) ==
    /\ speaks[p] \in {"idle", "ended"}
    /\ IF ~voiceEnabled
       THEN /\ speaks' = [speaks EXCEPT ![p] = "ended"]
            /\ UNCHANGED <<currentAudio, currentUtterance, playing, synthesis>>
       ELSE /\ currentAudio' = NoCall
            /\ playing' = PlayingAfterStop
            /\ IF google
               THEN /\ speaks' = [SpeaksAfterStop EXCEPT ![p] = "fetching"]
                    /\ synthesis' = SynthesisAfterStop
                    /\ currentUtterance' = NoCall
               ELSE SpeakUtterance(p, SynthesisAfterStop, SpeaksAfterStop)
    /\ UNCHANGED <<listenVars, chatVars, cardVars>>
    /\ UNCHANGED <<dbVars, locVars, navVars, farmVars>>

\* The fetch of speakWithGoogleTTS answers: with the audio, which is played,
\* or every voice tier fails and speak falls back to the Web Speech API.
FetchReturns(p, ok) ==
    /\ speaks[p] = "fetching"
    /\ IF ok
       THEN /\ currentAudio' = p
            /\ playing' = playing \cup {p}
            /\ speaks' = [speaks EXCEPT ![p] = "playing"]
            /\ UNCHANGED <<currentUtterance, synthesis>>
       ELSE /\ SpeakUtterance(p, synthesis, speaks)
            /\ UNCHANGED <<currentAudio, playing>>
    /\ UNCHANGED <<listenVars, chatVars, cardVars>>
    /\ UNCHANGED <<dbVars, locVars, navVars, farmVars>>

\* audio.onended
AudioEnds(p) ==
    /\ p \in playing
    /\ playing' = playing \ {p}
    /\ currentAudio' = NoCall
    /\ speaks' = [speaks EXCEPT ![p] = "ended"]
    /\ UNCHANGED <<currentUtterance, synthesis>>
    /\ UNCHANGED <<listenVars, chatVars, cardVars>>
    /\ UNCHANGED <<dbVars, locVars, navVars, farmVars>>

\* utterance.onend, of the utterance the browser was speaking
UtteranceEnds ==
    /\ synthesis # <<>>
    /\ synthesis' = Tail(synthesis)
    /\ currentUtterance' = NoCall
    /\ speaks' = [speaks EXCEPT ![Head(synthesis)] = "ended"]
    /\ UNCHANGED <<currentAudio, playing>>
    /\ UNCHANGED <<listenVars, chatVars, cardVars>>
    /\ UNCHANGED <<dbVars, locVars, navVars, farmVars>>

\* stop()
Stop ==
    /\ currentAudio' = NoCall
    /\ playing' = PlayingAfterStop
    /\ synthesis' = SynthesisAfterStop
    /\ currentUtterance' = NoCall
    /\ speaks' = SpeaksAfterStop
    /\ UNCHANGED <<listenVars, chatVars, cardVars>>
    /\ UNCHANGED <<dbVars, locVars, navVars, farmVars>>

(***************************************************************************)
(* VoiceService: startListening and stopListening, in a browser that has   *)
(* speech recognition.  recognition.session is the recogniser's session:   *)
(* "starting" from start() to its start event, "running", "closing" once   *)
(* it delivered its result or error, "none" after its end event;           *)
(* recognition.handlers is the call whose resolve and reject the onresult  *)
(* and onerror callbacks hold.                                             *)
(***************************************************************************)
Settled == {"resolved", "rejected"}

\* resolve / reject of the promise of call h: no effect once it is settled.
ListensAfter(h, outcome) ==
    IF h # NoCall /\ listens[h] = "pending"
    THEN [listens EXCEPT ![h] = outcome] ELSE listens

StartListening(p) ==
    /\ listens[p] \in {"idle"} \cup Settled
    /\ IF isRecognitionActive
       THEN /\ listens' = [listens EXCEPT ![p] = "rejected"]
            /\ UNCHANGED <<isRecognitionActive, recognition>>
       ELSE IF recognition.session # "none"
       THEN \* recognition.start() throws: the session is not over
            /\ listens' = [listens EXCEPT ![p] = "rejected"]
            /\ recognition' = [recognition EXCEPT !.handlers = p]
            /\ isRecognitionActive' = FALSE
       ELSE /\ listens' = [listens EXCEPT ![p] = "pending"]
            /\ recognition' = [session |-> "starting", handlers |-> p]
            /\ UNCHANGED isRecognitionActive
    /\ UNCHANGED <<voiceVars, chatVars, cardVars>>
    /\ UNCHANGED <<dbVars, locVars, navVars, farmVars>>

\* recognition.onstart
OnStart ==
    /\ recognition.session = "starting"
    /\ recognition' = [recognition EXCEPT !.session = "running"]
    /\ isRecognitionActive' = TRUE
    /\ UNCHANGED listens
    /\ UNCHANGED <<voiceVars, chatVars, cardVars>>
    /\ UNCHANGED <<dbVars, locVars, navVars, farmVars>>

\* recognition.onresult
OnResult ==
    /\ recognition.session = "running"
    /\ recognition' = [recognition EXCEPT !.session = "closing"]
    /\ isRecognitionActive' = FALSE
    /\ listens' = ListensAfter(recognition.handlers, "resolved")
    /\ UNCHANGED <<voiceVars, chatVars, cardVars>>
    /\ UNCHANGED <<dbVars, locVars, navVars, farmVars>>

\* recognition.onerror (no-speech, not-allowed, network, aborted)
OnError ==
    /\ recognition.session \in {"starting", "running"}
    /\ recognition' = [recognition EXCEPT !.session = "closing"]
    /\ isRecognitionActive' = FALSE
    /\ listens' = ListensAfter(recognition.handlers, "rejected")
    /\ UNCHANGED <<voiceVars, chatVars, cardVars>>
    /\ UNCHANGED <<dbVars, locVars, navVars, farmVars>>

\* recognition.onend: the session is over, with or without a result or an
\* error before it.
OnEnd ==
    /\ recognition.session \in {"running", "closing"}
    /\ recognition' = [recognition EXCEPT !.session = "none"]
    /\ isRecognitionActive' = FALSE
    /\ UNCHANGED listens
    /\ UNCHANGED <<voiceVars, chatVars, cardVars>>
    /\ UNCHANGED <<dbVars, locVars, navVars, farmVars>>

\* stopListening: recognition.stop() lets the session return what it heard
\* so far, if anything, and end.
StopListening ==
    /\ isRecognitionActive
    /\ isRecognitionActive' = FALSE
    /\ UNCHANGED <<recognition, listens>>
    /\ UNCHANGED <<voiceVars, chatVars, cardVars>>
    /\ UNCHANGED <<dbVars, locVars, navVars, farmVars>>

NextVoice ==
    \/ \E p \in Calls, e, g \in BOOLEAN : Speak(p, e, g)
    \/ \E p \in Calls, ok \in BOOLEAN : FetchReturns(p, ok)
    \/ \E p \in Calls : AudioEnds(p)
    \/ UtteranceEnds
    \/ Stop
    \/ \E p \in Calls : StartListening(p)
    \/ OnStart
    \/ OnResult
    \/ OnError
    \/ OnEnd
    \/ StopListening

SpecVoice == InitDb /\ [][NextVoice]_vars

\* The browser fires the start event of a session it started and the end
\* event of every session.
SpecVoiceFair == SpecVoice /\ WF_vars(OnStart) /\ WF_vars(OnEnd)

\* The speech outputs that sound: the Audio elements playing and the
\* utterance the browser speaks.
Sounding ==
    playing \cup (IF synthesis # <<>> THEN {Head(synthesis)} ELSE {})

\* C16: at most one speech output started by speak is playing at any time.
C16_OneOutputPlaying == Cardinality(Sounding) <= 1

\* C17: every promise startListening returned settles in the end.
C17_EveryPromiseSettles ==
    \A p \in Calls : (listens[p] = "pending") ~> (listens[p] \in Settled)

(***************************************************************************)
(* Chatbot.handleSendMessage.  isLoading.state is the value React holds,   *)
(* isLoading.rendered the value of the last render, which is the one the   *)
(* handlers of the buttons and of the input box read.  messages counts the *)
(* messages appended by each side.                                         *)
(***************************************************************************)
MaxMessages == 2

\* The senders are DOM event handlers (click, key press): React renders the
\* state they set before the next event is handled.
RenderedAfterEvent_Mut(set, rendered) == rendered

RenderedAfterEvent(set, rendered) == set

HandleSendMessage(p, input) ==
    /\ sends[p].pc # "processing"
    /\ messages.user < MaxMessages
    /\ IF ~input \/ isLoading.rendered
       THEN /\ sends' = [sends EXCEPT ![p] = [pc |-> "returned", input |-> input]]
            /\ UNCHANGED <<isLoading, messages>>
       ELSE /\ sends' = [sends EXCEPT ![p] = [pc |-> "processing", input |-> input]]
            /\ messages' = [messages EXCEPT !.user = @ + 1]
            /\ isLoading' = [state |-> TRUE,
                             rendered |-> RenderedAfterEvent(TRUE, isLoading.rendered)]
    /\ UNCHANGED <<voiceVars, listenVars, cardVars>>
    /\ UNCHANGED <<dbVars, locVars, navVars, farmVars>>

\* The rest of the handler, after its awaits: the answer or the error
\* message is appended and the finally clears isLoading.
SendFinishes(p) ==
    /\ sends[p].pc = "processing"
    /\ sends' = [sends EXCEPT ![p].pc = "done"]
    /\ messages' = [messages EXCEPT !.bot = @ + 1]
    /\ isLoading' = [isLoading EXCEPT !.state = FALSE]
    /\ UNCHANGED <<voiceVars, listenVars, cardVars>>
    /\ UNCHANGED <<dbVars, locVars, navVars, farmVars>>

\* React renders a state set outside an event handler.
Render ==
    /\ isLoading.rendered # isLoading.state
    /\ isLoading' = [isLoading EXCEPT !.rendered = isLoading.state]
    /\ UNCHANGED <<sends, messages>>
    /\ UNCHANGED <<voiceVars, listenVars, cardVars>>
    /\ UNCHANGED <<dbVars, locVars, navVars, farmVars>>

\* handleClearChat, confirmed by the farmer
ClearChat ==
    /\ messages # [user |-> 0, bot |-> 1]
    /\ messages' = [user |-> 0, bot |-> 1]
    /\ UNCHANGED <<sends, isLoading>>
    /\ UNCHANGED <<voiceVars, listenVars, cardVars>>
    /\ UNCHANGED <<dbVars, locVars, navVars, farmVars>>

NextChat ==
    \/ \E p \in Calls, input \in BOOLEAN : HandleSendMessage(p, input)
    \/ \E p \in Calls : SendFinishes(p)
    \/ Render
    \/ ClearChat

SpecChat == InitDb /\ [][NextChat]_vars

Processing == {p \in Calls : sends[p].pc = "processing"}

SendMade(p) == sends[p].pc # "processing" /\ sends'[p] # sends[p]

TurnedAway(p) == sends'[p].pc = "returned" /\ messages' = messages

CardCrop == 1

\* loadStatus is called: getCropStatus is under way
EvalStarts(p) ==
    /\ evaluations[p].pc = "idle"
    /\ \A q \in Calls : q < p => evaluations[q].pc # "idle"
    /\ HasCrop(CardCrop)
    /\ evaluations' = [evaluations EXCEPT ![p].pc = "started"]
    /\ UNCHANGED cardStatus
    /\ UNCHANGED <<voiceVars, listenVars, chatVars>>
    /\ UNCHANGED <<dbVars, locVars, navVars, farmVars>>

\* the queries of getCropStatus are answered from the database as it is now
EvalReads(p, manualQ, logsQ) ==
    /\ evaluations[p].pc = "started"
    /\ evaluations' = [evaluations EXCEPT
                          ![p] = [pc |-> "read",
                                  result |-> getCropStatus(CardCrop, manualQ, logsQ)]]
    /\ UNCHANGED cardStatus
    /\ UNCHANGED <<voiceVars, listenVars, chatVars>>
    /\ UNCHANGED <<dbVars, locVars, navVars, farmVars>>

\* await getCropStatus returns: setStatus(cropStatus)
EvalReturns(p) ==
    /\ evaluations[p].pc = "read"
    /\ evaluations' = [evaluations EXCEPT ![p].pc = "done"]
    /\ cardStatus' = [shown |-> evaluations[p].result, from |-> p]
    /\ UNCHANGED <<voiceVars, listenVars, chatVars>>
    /\ UNCHANGED <<dbVars, locVars, navVars, farmVars>>

NextCard ==
    \/ \E p \in Calls : EvalStarts(p)
    \/ \E p \in Calls, mq \in QueryOutcomes :
          \E lq \in LogOutcomesOf(CardCrop, mq) : EvalReads(p, mq, lq)
    \/ \E p \in Calls : EvalReturns(p)
    \/ \E s \in Statuses : UpdateCropStatus(CardCrop, s, TRUE, TRUE)
    \/ \E c \in CropPicksOf(TRUE, "", TRUE) :
          SendImage(TRUE, TRUE, SevereRun, "hi", "", TRUE, TRUE, c)
    \/ Tick

SpecCard == InitDisease /\ [][NextCard]_vars

\* C19: the result of an evaluation started earlier never replaces, on the
\* card, the result of an evaluation started later: the status shown does
\* not change to what an earlier-started evaluation found.
C19_LaterStartedWins ==
    [][cardStatus'.from < cardStatus.from => cardStatus'.shown = cardStatus.shown]_vars

(***************************************************************************)
(* getCropStatus and the manual status.                                    *)
(***************************************************************************)
EvaluatedCrop == Evaluated /\ HasCrop(lastOp.crop)

ManualSet(row) == row.manual_status # NoStatus

ManualAge(row) == now - row.manual_status_updated_at

FromLogs(cropId) == ClassifyLogs(RecentLogs(cropId))

NextVision ==
    \/ \E a \in BOOLEAN :
         \E u \in UploadsOf(a) :
            \E v \in VisionOf(a, u) :
               \E sa, i \in InsertsOf(v) :
                  \E c \in CropIds \cup {NoCrop} :
                     DetectDiseaseFromImage(a, u, v, sa, i, c)
    \/ \E r \in cropCycles, mq \in QueryOutcomes :
         \E lq \in LogOutcomesOf(r.crop_id, mq) :
            GetCropStatus(r.crop_id, mq, lq)
    \/ Tick

SpecVision == InitDisease /\ [][NextVision]_vars

\* C21: with no manual status override in effect and a successful
\* disease-log query, getCropStatus returns 'healthy' exactly when the crop
\* has no disease logs in the last 30 days.
C21_HealthyIffNoLogs ==
    (/\ Evaluated
     /\ ~ManualOverrideInEffect(lastOp.crop)
     /\ lastOp.manualQ # "throw" /\ lastOp.logsQ = "ok")
        => (lastOp.result = "healthy"
               <=> NumberOf(LogsOfLast30Days(lastOp.crop)) = 0)

\* C22: generateAdvice never rejects: whatever the input and whichever of
\* its auth, database, storage and AI calls fails, it resolves with a
\* response.
C22_NeverRejects == lastOp.op = "generateAdvice" => lastOp.returned

(***************************************************************************)
(* generateSmartAlerts: the number of alerts returned.                     *)
(***************************************************************************)
AlertsReturned == lastOp.op = "generateSmartAlerts" /\ lastOp.forecastOk

\* C23: whenever the forecast was fetched, generateSmartAlerts returns at
\* least 3 alerts, for a forecast of any length of 1 day or more.
C23_AtLeastThreeAlerts == AlertsReturned => Len(lastOp.result) >= MIN_ALERTS

\* C24: generateSmartAlerts never returns more than 6 alerts, whatever the
\* forecast, the active crops, the soil data and the recent disease logs.
C24_AtMostSixAlerts ==
    lastOp.op = "generateSmartAlerts" => Len(lastOp.result) <= 6

\* The forecast days alone gave more than 6 alerts and 6 were returned.
C24_Witness ==
    /\ AlertsReturned
    /\ Len(lastOp.pushed) > 6
    /\ Len(lastOp.result) = 6

(***************************************************************************)
(* resetPermissionDenied and the call that follows it.                     *)
(***************************************************************************)
ResetStands == lastOp.op = "resetPermissionDenied"

TermsOf(authOk, uploadOk) ==
    IF authOk /\ uploadOk THEN DetectedTerms \cup {"fail"} ELSE {"fail"}

NextSeverity ==
    \/ \E authOk \in BOOLEAN, run \in ChatRuns :
         \E uploadOk \in UploadsOf(authOk) :
            \E sv \in SavesOf(authOk, uploadOk, run) :
               \E c \in CropPicksOf(authOk, sv[1], sv[2]) :
                  SendImage(authOk, uploadOk, run, "hi", sv[1], sv[2], sv[3], c)
    \/ \E a \in BOOLEAN : \E u \in UploadsOf(a) : \E v \in TermsOf(a, u) :
          \E sa, i \in InsertsOf(v) :
             DetectDiseaseFromImage(a, u, v, sa, i, NoCrop)

SpecSeverity == InitDisease /\ [][NextSeverity]_vars

WroteLog == lastOp.op \in {"sendImage", "detectDiseaseFromImage"}

\* C26: every severity the chatbot and the image detection hand to the
\* disease_logs insert is 'mild', 'moderate', 'severe' or 'unknown': no insert
\* is turned down by the severity CHECK, and every stored row satisfies it.
C26_SeverityPassesCheck ==
    /\ WroteLog => ~lastOp.rejected
    /\ \A r \in DOMAIN diseaseLogs : r.severity \in SeverityCheck

\* The image detection has just stored a row, and the table holds an
\* 'unknown' row next to a row of a rated severity.
C26_Witness ==
    /\ lastOp.op = "detectDiseaseFromImage" /\ lastOp.saved
    /\ \E r \in DOMAIN diseaseLogs : r.severity = "unknown"
    /\ \E r \in DOMAIN diseaseLogs : r.severity \in {"mild", "moderate", "severe"}

====
